---- MODULE Spec2Model ----
(***************************************************************************)
(* A model of cashu-gateway: three peers (Alice, the gateway, the dealer)  *)
(* that swap Cashu ecash for Lightning payments through HTLC- and          *)
(* P2PK-locked proofs, talking over an encrypted relay.                    *)
(*                                                                         *)
(* Spec      the receive flow (Alice asks the gateway for Lightning-in)    *)
(* FairSpec  the receive flow with weak fairness of every step             *)
(* SendSpec  the send flow (Alice pays an invoice through the gateway)     *)
(* FairSendSpec  the send flow with weak fairness of every step            *)
(***************************************************************************)
EXTENDS Integers, Sequences, FiniteSets, TLC

(***************************************************************************)
(* Bounds of the model.                                                    *)
(***************************************************************************)
\* receive commands Alice issues
MaxFlows == 1
\* deliveries of payment_received notifications to the gateway
MaxNotifs == 2
\* requests sent to the peers by a relay client that is none of the three
MaxExternal == 1
\* the clock runs 0 .. MaxTime
MaxTime == 2
\* pay commands Alice issues
MaxPays == 2
\* events the relay delivers a second time
MaxDups == 1

(***************************************************************************)
(* Program constants.                                                      *)
(***************************************************************************)
DEALER_FEE == 2

(***************************************************************************)
(* Values.                                                                 *)
(***************************************************************************)
Alice == "alice"
Gateway == "gateway"
Dealer == "dealer"
Other == "other"

\* `02${keys.getPublicKeyHex()}`: the compressed form of a peer's x-only key
Pub(k) == <<"02", k>>

\* bytesToHex(sha256(hexToBytes(preimage)))
Sha256(p) == <<"h", p>>

\* randomBytes(32) of Alice's receive command number f
AlicePreimage(f) == 100 + f

\* the preimage the Lightning backend draws for its k-th invoice
NwcPreimage(k) == k

KeysetId == "ks"

NoReq == [type |-> "none"]

\* no library function has been called on its own
NoCalc == [op |-> "none"]

\* no operation of the wallet has been called yet
NoCall == [op |-> "none"]

\* this.subscription = null
NoSubscription == [map |-> 0, sub |-> 0]

RECURSIVE SumSeq(_)
SumSeq(s) == IF s = <<>> THEN 0 ELSE Head(s) + SumSeq(Tail(s))

RECURSIVE SumSet(_)
SumSet(S) == IF S = {} THEN 0
             ELSE LET x == CHOOSE y \in S : TRUE IN x.amount + SumSet(S \ {x})

Amounts(s) == [i \in 1..Len(s) |-> s[i].amount]

Range(s) == {s[i] : i \in 1..Len(s)}

\* Map.set / Map.delete / Map.has / Map.get
Put(m, k, v) == [x \in (DOMAIN m) \cup {k} |-> IF x = k THEN v ELSE m[x]]
Del(m, k) == [x \in (DOMAIN m) \ {k} |-> m[x]]
Has(m, k) == k \in DOMAIN m
EmptyMap == [x \in {} |-> 0]

(***************************************************************************)
(* Crypto primitives, as the algebra the code relies on.                   *)
(***************************************************************************)
\* B_ = H2C(secret) + r*G
blindMessage(secret, r) == [s |-> secret, r |-> r]

\* the mint's signature on a blinded message: C_ = k*B_
MintSign(bm) == [b |-> bm.B_, amount |-> bm.amount, id |-> bm.id]

\* C = C_ - r*K: the mint's signature on the secret only when r is the
\* blinding factor B_ was made with
unblind(sig, r) ==
    IF sig.b.r = r THEN <<"C", sig.b.s, sig.amount>>
    ELSE <<"junk", sig.b.s, r>>

\* the signature the mint accepts for this secret and amount
ValidC(secret, amount) == <<"C", secret, amount>>

IsValid(p) == p.C = ValidC(p.secret, p.amount)

\* Y = hashToCurve(utf8(secret))
hashToCurve(secret) == <<"Y", secret>>

\* schnorr signatures: signP2PKSecret signs one secret
signP2PKSecret(secret, priv) == [by |-> priv, msg |-> <<"secret", secret>>]

NoWitness == [signatures |-> <<>>, preimage |-> 0]

(***************************************************************************)
(* Blinded-output engine.                                                  *)
(***************************************************************************)
RECURSIVE SplitFrom(_, _)
SplitFrom(n, d) ==
    IF n = 0 THEN <<>>
    ELSE IF n % 2 = 1 THEN <<d>> \o SplitFrom(n \div 2, 2 * d)
    ELSE SplitFrom(n \div 2, 2 * d)

\* the default denomination split: powers of two, ascending
splitAmount(n) == SplitFrom(n, 1)

P2PKSecret(pubkey, nonce) ==
    [kind |-> "P2PK", data |-> pubkey, nonce |-> nonce, tags |-> <<>>]

\* Wallet.createP2PKBlindedMessages: one OutputData per denomination, each
\* with a fresh nonce and blinding factor (base names the call, i the output)
createP2PKBlindedMessages(amount, pubkey, base) ==
    LET split == splitAmount(amount) IN
    [i \in 1..Len(split) |->
        LET secret == P2PKSecret(pubkey, <<base, i>>)
            r == <<"r", base, i>>
        IN [blindedMessage |-> [amount |-> split[i],
                                B_ |-> blindMessage(secret, r),
                                id |-> KeysetId],
            r |-> r,
            secret |-> secret]]

BlindedMessagesOf(od) == [i \in 1..Len(od) |-> od[i].blindedMessage]


\* OutputData.toProof(sig, keyset): the proof takes its amount from the
\* signature and its secret from the OutputData
toProof(od, sig) ==
    [id |-> sig.id, amount |-> sig.amount, secret |-> od.secret,
     C |-> unblind(sig, od.r), witness |-> NoWitness]

\* Wallet.unblindSignaturesAndCreateProofs: throws on a count mismatch
UnblindThrows(outputData, blindedSignatures) ==
    Len(outputData) # Len(blindedSignatures)

unblindSignaturesAndCreateProofs(outputData, blindedSignatures) ==
    [i \in 1..Len(outputData) |-> toProof(outputData[i], blindedSignatures[i])]

(***************************************************************************)
(* Secrets and their tags.                                                 *)
(***************************************************************************)
PlainSecret(nonce) ==
    [kind |-> "plain", data |-> <<"none", 0>>, nonce |-> nonce, tags |-> <<>>]

\* the tags the sendHTLC factory pushes, in its order; a config field that
\* is not given is the empty tuple
HTLCTags(config) ==
    (IF config.sigflag # <<>> THEN << <<"sigflag", config.sigflag>> >> ELSE <<>>)
    \o (IF config.pubkeys # <<>> THEN << <<"pubkeys", config.pubkeys>> >> ELSE <<>>)
    \o (IF config.n_sigs # <<>> THEN << <<"n_sigs", config.n_sigs>> >> ELSE <<>>)
    \o (IF config.locktime # <<>> THEN << <<"locktime", config.locktime>> >> ELSE <<>>)
    \o (IF config.refund # <<>> THEN << <<"refund", config.refund>> >> ELSE <<>>)
    \o (IF config.n_sigs_refund # <<>>
        THEN << <<"n_sigs_refund", config.n_sigs_refund>> >> ELSE <<>>)

HTLCSecret(config, nonce) ==
    [kind |-> "HTLC", data |-> config.preimageHash, nonce |-> nonce,
     tags |-> HTLCTags(config)]

\* the values of tag `name`, the empty tuple when the tag is absent
TagValue(secret, name) ==
    LET S == {i \in 1..Len(secret.tags) : secret.tags[i][1] = name} IN
    IF S = {} THEN <<>> ELSE secret.tags[CHOOSE i \in S : TRUE][2]

\* JSON.parse(proofs[0].secret)[1].data
SecretData(proof) == proof.secret.data

(***************************************************************************)
(* State.                                                                  *)
(***************************************************************************)
VARIABLES
    net,            \* relay: the encrypted direct messages in flight
    now,            \* the clock
    mintSpent,      \* mint: the Y of every proof spent
    aStore,         \* Alice's proofs table, Y -> proof
    gStore,         \* the gateway's proofs table
    dStore,         \* the dealer's proofs table
    aFlow,          \* Alice: her receive commands
    aPending,       \* Alice: pendingHTLCRequests
    aTask,          \* Alice: blinded_signatures handlers awaiting the mint
    dPending,       \* dealer: pendingDealerFees
    dCount,         \* dealer: request_dealer_fee calls served (names nonces)
    dTask,          \* dealer: swap_htlc handlers awaiting the mint
    gPending,       \* gateway: pendingReceiveRequests
    gProcessed,     \* gateway: processedPayments
    gTask,          \* gateway: processPayment calls in progress
    gTracked,       \* gateway: proof sets handed to the proof-state tracker
    lnInvoices,     \* Lightning backend: payment hash -> invoice
    lnNotified,     \* payment_received notifications delivered so far
    extCount,       \* requests sent so far by the other relay client
    aPay,           \* Alice: her pay commands
    gPay,           \* gateway: pay_invoice handlers in progress
    lnPaid,         \* Lightning backend: invoices the gateway has paid
    swapLog,        \* every swap_htlc request the gateway has sent
    sent,           \* how often each call has sent each protocol request
    ignored,        \* the rows INSERT OR IGNORE has skipped so far
    tSub,           \* tracker: this.subscription (its map and mint subscription)
    tMaps,          \* tracker: every trackedSets map object created so far
    tStates,        \* tracker: proofStates, C -> state
    tTask,          \* tracker: trackProofSet calls awaiting createSubscription
    tCalls,         \* tracker: the onSetSpent callbacks invoked so far
    tReported,      \* tracker: the C of every proof reported SPENT so far
    mSubs,          \* mint: the proof-state subscriptions opened so far
    mWitness,       \* mint: C -> the preimage in the witness a proof was spent with
    calc,           \* a library function called on its own: arguments and result
    wWallet,        \* Wallet: this._wallet
    wPc,            \* Wallet: where the initialize() call stands
    wReady,         \* Wallet: an initialize() has completed and no close() followed
    wCache,         \* Wallet: the mint_cache table holds the mint
    wDb,            \* Wallet: the proofs table of the wallet under test
    wResult,        \* Wallet: the last operation called and how it ended
    dups,           \* relay: the events it has delivered a second time
    gMaking         \* gateway: make_invoice calls awaiting nwcWallet.makeInvoice

vars == <<net, now, mintSpent, aStore, gStore, dStore, aFlow, aPending, aTask,
          dPending, dCount, dTask, gPending, gProcessed, gTask, gTracked,
          lnInvoices, lnNotified, extCount, aPay, gPay, lnPaid, swapLog,
          sent, ignored, tSub, tMaps, tStates, tTask, tCalls, tReported, mSubs,
          mWitness, calc, wWallet, wPc, wReady, wCache, wDb, wResult, dups, gMaking>>

sendVars == <<aPay, gPay, lnPaid>>

trackerVars == <<tSub, tMaps, tStates, tTask, tCalls, tReported, mSubs, mWitness>>

walletVars == <<wWallet, wPc, wReady, wCache, wDb, wResult>>

unitVars == <<calc, walletVars, dups, gMaking>>

(***************************************************************************)
(* Local proof store (WalletDatabase).                                     *)
(***************************************************************************)
\* INSERT OR REPLACE: a proof whose Y is stored overwrites the stored row
RECURSIVE saveProofsReplace(_, _)
saveProofsReplace(store, proofs) ==
    IF proofs = <<>> THEN store
    ELSE LET p == Head(proofs)
         IN saveProofsReplace(Put(store, hashToCurve(p.secret), p), Tail(proofs))

\* INSERT OR IGNORE INTO proofs (Y, ...): a proof whose Y is stored is skipped
RECURSIVE saveProofs(_, _)
saveProofs(store, proofs) ==
    IF proofs = <<>> THEN store
    ELSE LET p == Head(proofs)
             Y == hashToCurve(p.secret)
         IN saveProofs(IF Has(store, Y) THEN store ELSE Put(store, Y, p),
                       Tail(proofs))

\* the proofs of a saveProofs call that INSERT OR IGNORE skips: their Y is
\* stored already, or an earlier proof of the call has it
RECURSIVE IgnoredRows(_, _)
IgnoredRows(store, proofs) ==
    IF proofs = <<>> THEN {}
    ELSE LET p == Head(proofs)
             Y == hashToCurve(p.secret)
         IN IF Has(store, Y) THEN {p} \cup IgnoredRows(store, Tail(proofs))
            ELSE IgnoredRows(Put(store, Y, p), Tail(proofs))

\* a store whose delete does nothing
removeNoProofs(store, proofs) == store

\* DELETE FROM proofs WHERE Y IN (...)
removeProofs(store, proofs) ==
    [y \in (DOMAIN store) \ {hashToCurve(proofs[i].secret) : i \in 1..Len(proofs)}
        |-> store[y]]

\* SELECT COALESCE(SUM(amount), 0) FROM proofs
getBalance(store) == SumSet({[y |-> y, amount |-> store[y].amount] : y \in DOMAIN store})


RECURSIVE SeqOf(_)
SeqOf(S) == IF S = {} THEN <<>>
            ELSE LET x == CHOOSE y \in S : TRUE IN <<x>> \o SeqOf(S \ {x})

StoredProofs(store) == {store[y] : y \in DOMAIN store}

\* cashu-ts selectProofsToSend(all, amount, true, false): proofs that cover
\* the amount with the least excess; none when the balance is too low
SelectSend(store, amount) ==
    LET C == {S \in SUBSET StoredProofs(store) : SumSet(S) >= amount} IN
    IF C = {} THEN <<>>
    ELSE SeqOf(CHOOSE S \in C : \A T \in C :
                  \/ SumSet(S) < SumSet(T)
                  \/ SumSet(S) = SumSet(T) /\ Cardinality(S) <= Cardinality(T))

(***************************************************************************)
(* The mint (external): POST /v1/swap as the wallets call it.              *)
(***************************************************************************)
\* the characters of a string: a string given by its characters is
\* [raw |-> <<c1, ..., cn>>]; the serialisation of a structured secret and
\* the hex form of a curve point are taken as one character each
Chars(x) == IF "raw" \in DOMAIN x THEN x.raw ELSE <<x>>

\* message += ... over a list of strings
RECURSIVE Concat(_)
Concat(strings) ==
    IF strings = <<>> THEN <<>> ELSE Head(strings) \o Concat(Tail(strings))

\* a message made of the input secrets only
constructSigAllMessageInputsOnly(inputProofs, outputBlindedMessages) ==
    <<"sigall", Concat([i \in 1..Len(inputProofs) |-> Chars(inputProofs[i].secret)])>>

\* constructSigAllMessage: secret_0 || ... || secret_n || B_0 || ... || B_m,
\* hashed
constructSigAllMessage(inputProofs, outputBlindedMessages) ==
    <<"sigall",
      Concat([i \in 1..Len(inputProofs) |-> Chars(inputProofs[i].secret)])
      \o Concat([i \in 1..Len(outputBlindedMessages) |->
                    Chars(outputBlindedMessages[i].B_)])>>

\* signSigAllMessage
signSigAllMessage(privkey, inputProofs, outputBlindedMessages) ==
    [by |-> privkey, msg |-> constructSigAllMessage(inputProofs, outputBlindedMessages)]

\* verifySigAllSignature: a 33-byte key loses its prefix, a key of another
\* length than 32 or 33 bytes verifies nothing; schnorr.verify accepts the
\* signature of the key's owner on exactly this message. A key is given as
\* <<prefix, x>> (33 bytes) or <<x>> (32 bytes)
verifySigAllSignature(signature, pubkey, inputProofs, outputBlindedMessages) ==
    IF Len(pubkey) \notin {1, 2} THEN FALSE
    ELSE LET x == pubkey[Len(pubkey)]
             message == constructSigAllMessage(inputProofs, outputBlindedMessages)
         IN signature.by = x /\ signature.msg = message

SignedBy(witness, keys, msg) ==
    \E i \in 1..Len(witness.signatures) :
        /\ Pub(witness.signatures[i].by) \in Range(keys)
        /\ witness.signatures[i].msg = msg

\* the spending condition of input i (NUT-11 P2PK, NUT-14 HTLC)
InputUnlocked(inputs, outputs, i, t) ==
    LET s == inputs[i].secret
        sigAll == TagValue(s, "sigflag") = <<"SIG_ALL">>
        W == IF sigAll THEN inputs[1].witness ELSE inputs[i].witness
        msg == IF sigAll THEN constructSigAllMessage(inputs, outputs)
               ELSE <<"secret", s>>
        pubkeys == TagValue(s, "pubkeys")
        refund == TagValue(s, "refund")
        lock == TagValue(s, "locktime")
        expired == lock # <<>> /\ t > lock[1]
    IN CASE s.kind = "P2PK" -> SignedBy(W, <<s.data>>, msg)
         [] s.kind = "HTLC" ->
              /\ sigAll => \A j \in 1..Len(inputs) :
                               /\ inputs[j].secret.kind = "HTLC"
                               /\ inputs[j].secret.data = s.data
                               /\ inputs[j].secret.tags = s.tags
              /\ \/ /\ W.preimage # 0
                    /\ Sha256(W.preimage) = s.data
                    /\ pubkeys = <<>> \/ SignedBy(W, pubkeys, msg)
                 \/ /\ expired
                    /\ refund = <<>> \/ SignedBy(W, refund, msg)
         [] OTHER -> TRUE

\* a mint that swaps spent proofs again
MintSwapOkRespend(spent, inputs, outputs, t) ==
    /\ Len(inputs) > 0
    /\ \A i \in 1..Len(inputs) :
          /\ IsValid(inputs[i])
          /\ InputUnlocked(inputs, outputs, i, t)
    /\ SumSeq(Amounts(inputs)) = SumSeq(Amounts(outputs))

\* whether the mint accepts swap(inputs, outputs) at time t
MintSwapOk(spent, inputs, outputs, t) ==
    /\ Len(inputs) > 0
    /\ \A i \in 1..Len(inputs) :
          /\ IsValid(inputs[i])
          /\ hashToCurve(inputs[i].secret) \notin spent
          /\ \A j \in 1..Len(inputs) : i # j => inputs[i].secret # inputs[j].secret
          /\ InputUnlocked(inputs, outputs, i, t)
    /\ SumSeq(Amounts(inputs)) = SumSeq(Amounts(outputs))

\* the blinded signatures of an accepted swap, in the order of the outputs
MintSignatures(outputs) == [i \in 1..Len(outputs) |-> MintSign(outputs[i])]

MintSpend(spent, inputs) ==
    spent \cup {hashToCurve(inputs[i].secret) : i \in 1..Len(inputs)}

(***************************************************************************)
(* Wallet operations on top of the mint.                                   *)
(***************************************************************************)
\* an OutputData with a random secret per denomination of `amount`
PlainOutputs(amount, base) ==
    LET split == splitAmount(amount) IN
    [i \in 1..Len(split) |->
        LET secret == PlainSecret(<<base, i>>)
            r == <<"r", base, i>>
        IN [blindedMessage |-> [amount |-> split[i],
                                B_ |-> blindMessage(secret, r), id |-> KeysetId],
            r |-> r, secret |-> secret]]

\* the factory of sendHTLC: an HTLC secret per denomination of the amount
HTLCOutputs(amount, config, base) ==
    LET split == splitAmount(amount) IN
    [i \in 1..Len(split) |->
        LET secret == HTLCSecret(config, <<base, i>>)
            r == <<"r", base, i>>
        IN [blindedMessage |-> [amount |-> split[i],
                                B_ |-> blindMessage(secret, r), id |-> KeysetId],
            r |-> r, secret |-> secret]]

\* CashuWallet.send(amount, proofs, undefined, outputConfig) as sendHTLC calls
\* it: the inputs are swapped for HTLC-locked send proofs and plain change
WalletSend(spent, amount, proofs, config, base, t) ==
    LET total == SumSeq(Amounts(proofs))
        sendOD == HTLCOutputs(amount, config, base \o <<"send">>)
        keepOD == IF total > amount THEN PlainOutputs(total - amount, base \o <<"keep">>)
                  ELSE <<>>
        outputs == BlindedMessagesOf(keepOD) \o BlindedMessagesOf(sendOD)
        ok == total >= amount /\ MintSwapOk(spent, proofs, outputs, t)
        sigs == MintSignatures(outputs)
    IN [ok |-> ok,
        send |-> IF ok THEN unblindSignaturesAndCreateProofs(
                               sendOD, SubSeq(sigs, Len(keepOD) + 1, Len(sigs)))
                 ELSE <<>>,
        keep |-> IF ok THEN unblindSignaturesAndCreateProofs(
                               keepOD, SubSeq(sigs, 1, Len(keepOD)))
                 ELSE <<>>]

\* signP2PKProofs of CashuWallet.receive(token, {privkey}): a P2PK input gets
\* the key's signature on its secret
SignWith(proofs, privkey) ==
    [i \in 1..Len(proofs) |->
        IF proofs[i].secret.kind = "P2PK"
        THEN [proofs[i] EXCEPT !.witness =
                 [signatures |-> <<signP2PKSecret(proofs[i].secret, privkey)>>,
                  preimage |-> 0]]
        ELSE proofs[i]]

\* CashuWallet.receive(token): the token's proofs are swapped for fresh plain
\* proofs of the same total
WalletReceive(spent, proofs, base, t) ==
    LET total == SumSeq(Amounts(proofs))
        od == PlainOutputs(total, base \o <<"recv">>)
        outputs == BlindedMessagesOf(od)
        ok == MintSwapOk(spent, proofs, outputs, t)
    IN [ok |-> ok,
        proofs |-> IF ok THEN unblindSignaturesAndCreateProofs(od, MintSignatures(outputs))
                   ELSE <<>>]

InitialProofs(owner, amounts) ==
    [i \in 1..Len(amounts) |->
        LET secret == PlainSecret(<< <<"init", owner>>, i>>) IN
        [id |-> KeysetId, amount |-> amounts[i], secret |-> secret,
         C |-> ValidC(secret, amounts[i]), witness |-> NoWitness]]


(***************************************************************************)
(* Messaging layer: requests and responses as encrypted direct messages.   *)
(* A response carries the e-tag of its request.                            *)
(***************************************************************************)
Req(from, to, method, params) ==
    [type |-> "req", from |-> from, to |-> to, method |-> method, params |-> params]

Resp(req, body) ==
    [type |-> "resp", from |-> req.to, to |-> req.from, re |-> req, body |-> body]

createResponse(result) == [ok |-> TRUE, code |-> 0, result |-> result]

\* an error response that reports every error as bad parameters
createErrorResponseBadParams(code, message) ==
    [ok |-> FALSE, code |-> -32602, message |-> message]

createErrorResponse(code, message) ==
    [ok |-> FALSE, code |-> code, message |-> message]

\* the history of requests sent: call `flow` has sent `method` once more
Count(m, k) == IF Has(m, k) THEN m[k] ELSE 0
Sent(flow, method) == Put(sent, <<flow, method>>, Count(sent, <<flow, method>>) + 1)

RequestsTo(peer, method) ==
    {m \in net : m.type = "req" /\ m.to = peer /\ m.method = method}

\* a subscription that does not look at the sender of an event
ResponsesFromAnyone(req) ==
    {m \in net : m.type = "resp" /\ m.re = req}

\* the messages requestAndWaitForResponse resolves with: sent by the
\* recipient of the request and tagged with the request's event id
ResponsesTo(req) ==
    {m \in net : m.type = "resp" /\ m.re = req /\ m.from = req.to}

(***************************************************************************)
(* Alice: the receive command (receiveThroughGateway and its CLI handler). *)
(***************************************************************************)
ReceiveAmounts == {1, 3}

NewFlow == [pc |-> "new", amount |-> 0, hash |-> Sha256(0), req |-> NoReq,
            od |-> <<>>, fee |-> 0]

\* steps 0-1: draw the preimage, ask the dealer for its fee outputs
AliceReceive(f, N) ==
    /\ aFlow[f].pc = "new"
    /\ \A g \in 1..(f - 1) : aFlow[g].pc # "new"
    /\ LET h == Sha256(AlicePreimage(f))
           req == Req(Alice, Dealer, "request_dealer_fee",
                      [preimageHash |-> h, amount |-> N])
       IN /\ aFlow' = [aFlow EXCEPT ![f] =
                          [NewFlow EXCEPT !.pc = "wait_fee", !.amount = N,
                                          !.hash = h, !.req = req]]
          /\ net' = net \cup {req}
          /\ sent' = Sent(<<"receive", f>>, "request_dealer_fee")
    /\ UNCHANGED <<now, trackerVars, unitVars, mintSpent, aStore, gStore, dStore, aPending, aTask,
                   dPending, dCount, dTask, gPending, gProcessed, gTask,
                   gTracked, lnInvoices, lnNotified, extCount, swapLog, ignored,
                   sendVars>>

\* steps 2-4: the dealer answered; make the own outputs, aggregate, build
\* the pending request (a local), send make_invoice to the gateway
AliceFeeResponse(f) ==
    /\ aFlow[f].pc = "wait_fee"
    /\ \E m \in ResponsesTo(aFlow[f].req) :
          IF ~m.body.ok
          THEN /\ aFlow' = [aFlow EXCEPT ![f].pc = "failed"]
               /\ net' = net \ {m}
               /\ UNCHANGED sent
          ELSE LET N == aFlow[f].amount
                   dealerBlindedMessages == m.body.result.blindedMessages
                   feeAmount == m.body.result.feeAmount
                   aliceOutputData ==
                       createP2PKBlindedMessages(N, Pub(Alice), <<"own", f>>)
                   aggregated == dealerBlindedMessages
                                 \o BlindedMessagesOf(aliceOutputData)
                   req == Req(Alice, Gateway, "make_invoice",
                              [amount |-> N + feeAmount,
                               preimageHash |-> aFlow[f].hash,
                               blindedMessages |-> aggregated,
                               dealerPubkey |-> Dealer])
               IN /\ aFlow' = [aFlow EXCEPT ![f].pc = "wait_invoice",
                                            ![f].od = aliceOutputData,
                                            ![f].fee = feeAmount,
                                            ![f].req = req]
                  /\ net' = (net \ {m}) \cup {req}
                  /\ sent' = Sent(<<"receive", f>>, "make_invoice")
    /\ UNCHANGED <<now, trackerVars, unitVars, mintSpent, aStore, gStore, dStore, aPending, aTask,
                   dPending, dCount, dTask, gPending, gProcessed, gTask,
                   gTracked, lnInvoices, lnNotified, extCount, swapLog, ignored,
                   sendVars>>

\* the gateway answered make_invoice: receiveThroughGateway returns and the
\* CLI handler stores the pending request under the preimage hash
AliceInvoiceResponse(f) ==
    /\ aFlow[f].pc = "wait_invoice"
    /\ \E m \in ResponsesTo(aFlow[f].req) :
          /\ net' = net \ {m}
          /\ IF ~m.body.ok
             THEN /\ aFlow' = [aFlow EXCEPT ![f].pc = "failed"]
                  /\ UNCHANGED aPending
             ELSE /\ aFlow' = [aFlow EXCEPT ![f].pc = "done"]
                  /\ aPending' = Put(aPending, aFlow[f].hash,
                                     [outputData |-> aFlow[f].od,
                                      amount |-> aFlow[f].amount])
    /\ UNCHANGED <<now, trackerVars, unitVars, mintSpent, aStore, gStore, dStore, aTask,
                   dPending, dCount, dTask, gPending, gProcessed, gTask,
                   gTracked, lnInvoices, lnNotified, extCount, swapLog, sent, ignored, sendVars>>

\* a command that answers the timeout by sending its request once more
AliceReceiveRetry(f) ==
    /\ aFlow[f].pc \in {"wait_fee", "wait_invoice"}
    /\ net' = net \cup {aFlow[f].req}
    /\ sent' = Sent(<<"receive", f>>, aFlow[f].req.method)
    /\ UNCHANGED <<now, trackerVars, unitVars, mintSpent, aStore, gStore, dStore, aFlow, aPending, aTask,
                   dPending, dCount, dTask, gPending, gProcessed, gTask,
                   gTracked, lnInvoices, lnNotified, extCount, swapLog, ignored,
                   sendVars>>

\* requestAndWaitForResponse rejects with 'Request timeout': the command
\* returns the error and stores nothing
AliceReceiveTimeout(f) ==
    /\ aFlow[f].pc \in {"wait_fee", "wait_invoice"}
    /\ aFlow' = [aFlow EXCEPT ![f].pc = "failed"]
    /\ UNCHANGED <<net, now, trackerVars, unitVars, mintSpent, aStore, gStore, dStore, aPending, aTask,
                   dPending, dCount, dTask, gPending, gProcessed, gTask,
                   gTracked, lnInvoices, lnNotified, extCount, swapLog, sent, ignored, sendVars>>


\* `!params.name` of the request handlers: the parameter is undefined
Missing(P, name) == name \notin DOMAIN P

\* `!params.amount`: undefined or 0
MissingAmount(P) == Missing(P, "amount") \/ P.amount = 0

\* which delivery of its event a request is (0: the first)
Dup(m) == IF "dup" \in DOMAIN m THEN m.dup ELSE 0

\* blinded_signatures, up to the await of the mint: look the pending request
\* up, unblind against its OutputData, hand the proofs to wallet.receive
AliceBlindedSignatures ==
    /\ \E m \in RequestsTo(Alice, "blinded_signatures") :
          LET preimageHash == m.params.preimageHash
              blindedSignatures == m.params.blindedSignatures
          IN
          IF Missing(m.params, "preimageHash") \/ Missing(m.params, "blindedSignatures")
          THEN /\ net' = (net \ {m}) \cup
                         {Resp(m, createErrorResponse(-32602,
                                     "Missing preimageHash or blindedSignatures"))}
               /\ UNCHANGED <<aTask, mintSpent>>
          ELSE IF ~Has(aPending, preimageHash)
          THEN /\ net' = (net \ {m}) \cup
                         {Resp(m, createErrorResponse(-32603,
                                     "No pending HTLC request found"))}
               /\ UNCHANGED <<aTask, mintSpent>>
          ELSE LET pendingRequest == aPending[preimageHash] IN
               IF UnblindThrows(pendingRequest.outputData, blindedSignatures)
               THEN /\ net' = (net \ {m}) \cup
                              {Resp(m, createErrorResponse(-32603, "Mismatch"))}
                    /\ UNCHANGED <<aTask, mintSpent>>
               ELSE LET proofs == unblindSignaturesAndCreateProofs(
                                      pendingRequest.outputData, blindedSignatures)
                        res == WalletReceive(mintSpent, SignWith(proofs, Alice),
                                             <<"bsig", preimageHash, Dup(m)>>,
                                             now)
                    IN /\ net' = net \ {m}
                       /\ mintSpent' = IF res.ok THEN MintSpend(mintSpent, proofs)
                                       ELSE mintSpent
                       /\ aTask' = aTask \cup
                                   {[req |-> m, hash |-> preimageHash, res |-> res]}
    /\ UNCHANGED <<now, trackerVars, unitVars, aStore, gStore, dStore, aFlow, aPending,
                   dPending, dCount, dTask, gPending, gProcessed, gTask,
                   gTracked, lnInvoices, lnNotified, extCount, swapLog, sent, ignored, sendVars>>

\* a handler that drops the pending request whatever the mint answered
AliceBlindedSignaturesDoneForgets ==
    /\ \E t \in aTask :
          /\ aTask' = aTask \ {t}
          /\ aPending' = Del(aPending, t.hash)
          /\ IF t.res.ok
             THEN /\ aStore' = saveProofs(aStore, t.res.proofs)
                  /\ ignored' = ignored \cup IgnoredRows(aStore, t.res.proofs)
                  /\ net' = net \cup
                            {Resp(t.req, createResponse(
                                     [success |-> TRUE,
                                      totalAmount |-> SumSeq(Amounts(t.res.proofs))]))}
             ELSE /\ net' = net \cup
                            {Resp(t.req, createErrorResponse(-32603,
                                     "Failed to process blinded signatures"))}
                  /\ UNCHANGED <<aStore, ignored>>
    /\ UNCHANGED <<now, trackerVars, unitVars, mintSpent, gStore, dStore, aFlow,
                   dPending, dCount, dTask, gPending, gProcessed, gTask,
                   gTracked, lnInvoices, lnNotified, extCount, swapLog, sent,
                   sendVars>>

\* blinded_signatures, after the mint answered: save the unlocked proofs,
\* delete the pending request, answer; a failed receive answers -32603
AliceBlindedSignaturesDone ==
    /\ \E t \in aTask :
          /\ aTask' = aTask \ {t}
          /\ IF t.res.ok
             THEN /\ aStore' = saveProofs(aStore, t.res.proofs)
                  /\ ignored' = ignored \cup IgnoredRows(aStore, t.res.proofs)
                  /\ aPending' = Del(aPending, t.hash)
                  /\ net' = net \cup
                            {Resp(t.req, createResponse(
                                     [success |-> TRUE,
                                      totalAmount |-> SumSeq(Amounts(t.res.proofs))]))}
             ELSE /\ net' = net \cup
                            {Resp(t.req, createErrorResponse(-32603,
                                     "Failed to process blinded signatures"))}
                  /\ UNCHANGED <<aStore, aPending, ignored>>
    /\ UNCHANGED <<now, trackerVars, unitVars, mintSpent, gStore, dStore, aFlow,
                   dPending, dCount, dTask, gPending, gProcessed, gTask,
                   gTracked, lnInvoices, lnNotified, extCount, swapLog, sent,
                   sendVars>>

(***************************************************************************)
(* Dealer: request_dealer_fee and swap_htlc.                               *)
(***************************************************************************)
\* a dealer that makes its fee outputs one sat short of DEALER_FEE
requestDealerFeeShort(alicePubkey, base) ==
    LET outputData == createP2PKBlindedMessages(DEALER_FEE - 1, Pub(Dealer), base) IN
    [pendingFee |-> [outputData |-> outputData, amount |-> DEALER_FEE,
                     alicePubkey |-> alicePubkey],
     blindedMessages |-> BlindedMessagesOf(outputData)]

\* requestDealerFee: DEALER_FEE sats of P2PK outputs locked to the dealer
requestDealerFee(alicePubkey, base) ==
    LET outputData == createP2PKBlindedMessages(DEALER_FEE, Pub(Dealer), base) IN
    [pendingFee |-> [outputData |-> outputData, amount |-> DEALER_FEE,
                     alicePubkey |-> alicePubkey],
     blindedMessages |-> BlindedMessagesOf(outputData)]

DealerRequestFee ==
    /\ \E m \in RequestsTo(Dealer, "request_dealer_fee") :
          LET preimageHash == m.params.preimageHash
              amount == m.params.amount
          IN
          IF Missing(m.params, "preimageHash") \/ MissingAmount(m.params)
          THEN /\ net' = (net \ {m}) \cup
                         {Resp(m, createErrorResponse(-32602,
                                     "Usage: request_dealer_fee <preimageHash> <amount>"))}
               /\ UNCHANGED <<dPending, dCount>>
          ELSE LET r == requestDealerFee(m.from, <<"fee", preimageHash, dCount + 1>>) IN
               /\ dCount' = dCount + 1
               /\ dPending' = Put(dPending, preimageHash, r.pendingFee)
               /\ net' = (net \ {m}) \cup
                         {Resp(m, createResponse(
                                     [success |-> TRUE, feeAmount |-> DEALER_FEE,
                                      blindedMessages |-> r.blindedMessages]))}
    /\ UNCHANGED <<now, trackerVars, unitVars, mintSpent, aStore, gStore, dStore, aFlow, aPending, aTask,
                   dTask, gPending, gProcessed, gTask,
                   gTracked, lnInvoices, lnNotified, extCount, swapLog, sent, ignored, sendVars>>

\* Wallet.receiveSigAllToken: mint.swap(inputs: the token's proofs, outputs:
\* the given blinded messages); a mint error becomes success = false
receiveSigAllToken(spent, token, blindedMessages, t) ==
    LET ok == MintSwapOk(spent, token.proofs, blindedMessages, t) IN
    [success |-> ok,
     blindedSignatures |-> IF ok THEN MintSignatures(blindedMessages) ELSE <<>>]

\* swap_htlc, up to the await of the mint swap
DealerSwapHtlc ==
    /\ \E m \in RequestsTo(Dealer, "swap_htlc") :
          LET P == m.params IN
          IF \/ Missing(P, "htlcToken") \/ Missing(P, "blindedMessages")
             \/ Missing(P, "requestPreimageHash") \/ Missing(P, "preimage")
             \/ Missing(P, "alicePubkey")
          THEN /\ net' = (net \ {m}) \cup
                         {Resp(m, createErrorResponse(-32602, "Usage: swap_htlc"))}
               /\ UNCHANGED <<dTask, mintSpent>>
          ELSE IF ~Has(dPending, P.requestPreimageHash)
          THEN /\ net' = (net \ {m}) \cup
                         {Resp(m, createErrorResponse(-32603,
                                     "No pending dealer fee request found"))}
               /\ UNCHANGED <<dTask, mintSpent>>
          ELSE LET res == receiveSigAllToken(mintSpent, P.htlcToken,
                                             P.blindedMessages, now)
               IN /\ net' = net \ {m}
                  /\ mintSpent' = IF res.success
                                  THEN MintSpend(mintSpent, P.htlcToken.proofs)
                                  ELSE mintSpent
                  /\ dTask' = dTask \cup
                              {[req |-> m,
                                pendingFee |-> dPending[P.requestPreimageHash],
                                res |-> res]}
    /\ UNCHANGED <<now, trackerVars, unitVars, aStore, gStore, dStore, aFlow, aPending, aTask,
                   dPending, dCount, gPending, gProcessed, gTask,
                   gTracked, lnInvoices, lnNotified, extCount, swapLog, sent, ignored, sendVars>>

\* a slice that starts one signature early
SliceFromBefore(s, n) == SubSeq(s, n, Len(s))

\* blindedSignatures.slice(0, n) and .slice(n)
SliceTo(s, n) == SubSeq(s, 1, IF n < Len(s) THEN n ELSE Len(s))
SliceFrom(s, n) == SubSeq(s, n + 1, Len(s))

\* a handler that forwards the signatures once the mint has answered and
\* saves nothing
DealerSwapDoneUnsaved ==
    /\ \E t \in dTask :
          LET P == t.req.params
              n == Len(t.pendingFee.outputData)
          IN
          /\ dTask' = dTask \ {t}
          /\ IF ~t.res.success
             THEN /\ net' = net \cup
                            {Resp(t.req, createErrorResponse(-32603,
                                     "Failed to swap HTLC token"))}
                  /\ UNCHANGED dPending
             ELSE /\ dPending' = Del(dPending, P.requestPreimageHash)
                  /\ net' = net \cup
                       {Req(Dealer, t.pendingFee.alicePubkey, "blinded_signatures",
                            [preimageHash |-> P.requestPreimageHash,
                             blindedSignatures |->
                                SliceFrom(t.res.blindedSignatures, n)]),
                        Resp(t.req, createResponse([success |-> TRUE]))}
    /\ UNCHANGED <<now, trackerVars, unitVars, mintSpent, aStore, gStore, dStore,
                   ignored, aFlow, aPending, aTask, dCount, gPending, gProcessed,
                   gTask, gTracked, lnInvoices, lnNotified, extCount, swapLog, sent,
                   sendVars>>

\* swapHTLC after the mint answered, and the rest of the swap_htlc handler:
\* split the signatures at |pendingFee.outputData|, unblind and save the
\* dealer's share, send Alice's share to her, delete the pending fee, answer
DealerSwapDone ==
    /\ \E t \in dTask :
          LET P == t.req.params
              n == Len(t.pendingFee.outputData)
              dealerSignatures == SliceTo(t.res.blindedSignatures, n)
              aliceSignatures == SliceFrom(t.res.blindedSignatures, n)
          IN
          /\ dTask' = dTask \ {t}
          /\ IF ~t.res.success
             THEN /\ net' = net \cup
                            {Resp(t.req, createErrorResponse(-32603,
                                     "Failed to swap HTLC token"))}
                  /\ UNCHANGED <<dStore, dPending, ignored>>
             ELSE IF UnblindThrows(t.pendingFee.outputData, dealerSignatures)
             THEN /\ net' = net \cup
                            {Resp(t.req, createErrorResponse(-32603, "Mismatch"))}
                  /\ UNCHANGED <<dStore, dPending, ignored>>
             ELSE LET dealerProofs == unblindSignaturesAndCreateProofs(
                                          t.pendingFee.outputData, dealerSignatures)
                  IN /\ dStore' = saveProofs(dStore, dealerProofs)
                     /\ ignored' = ignored \cup IgnoredRows(dStore, dealerProofs)
                     /\ dPending' = Del(dPending, P.requestPreimageHash)
                     /\ net' = net \cup
                          {Req(Dealer, t.pendingFee.alicePubkey, "blinded_signatures",
                               [preimageHash |-> P.requestPreimageHash,
                                blindedSignatures |-> aliceSignatures]),
                           Resp(t.req, createResponse([success |-> TRUE]))}
    /\ UNCHANGED <<now, trackerVars, unitVars, mintSpent, aStore, gStore, aFlow, aPending, aTask,
                   dCount, gPending, gProcessed, gTask,
                   gTracked, lnInvoices, lnNotified, extCount, swapLog, sent,
                   sendVars>>


(***************************************************************************)
(* The Lightning backend behind NWC (external).                            *)
(***************************************************************************)
\* nwcWallet.makeInvoice(amount): the backend draws the preimage; the invoice
\* expires one tick after it was made
NwcInvoice(k, amount, t) ==
    [paymentHash |-> Sha256(NwcPreimage(k)), preimage |-> NwcPreimage(k),
     amount |-> amount, expiryUnixSec |-> t + 1, paid |-> FALSE]

\* the BOLT11 string of an invoice, as decodeBolt11 reads it
Bolt11(inv) ==
    [paymentHash |-> inv.paymentHash, amountSat |-> inv.amount,
     expiryUnixSec |-> inv.expiryUnixSec]

(***************************************************************************)
(* Gateway: make_invoice, the payment listener and processPayment.         *)
(***************************************************************************)
\* the HTLC config processPayment hands to sendHTLC
GwHTLCConfig(paymentHash, expiryUnix) ==
    [preimageHash |-> paymentHash,
     sigflag |-> <<"SIG_ALL">>,
     pubkeys |-> <<Pub(Gateway)>>,
     n_sigs |-> <<>>,
     locktime |-> <<expiryUnix>>,
     refund |-> <<Pub(Gateway)>>,
     n_sigs_refund |-> <<1>>]

\* processPayment up to the await of the mint inside sendHTLC: the total of
\* the blinded messages is selected from the store, removed from it and
\* sent to the mint for HTLC-locked proofs (n names the call's randomness)
processPayment(tx, pendingRequest, preimageHash, n) ==
    LET totalAmount == SumSeq(Amounts(pendingRequest.blindedMessages)) IN
    \E proofs \in {SelectSend(gStore, totalAmount)} :
    \E res \in {WalletSend(mintSpent, totalAmount, proofs,
                           GwHTLCConfig(preimageHash, tx.expiryUnixSec),
                           <<"htlc", preimageHash, n>>, now)} :
       IF proofs = <<>>
       THEN UNCHANGED <<gStore, mintSpent, gTask>>
       ELSE /\ gStore' = removeProofs(gStore, proofs)
            /\ mintSpent' = IF res.ok THEN MintSpend(mintSpent, proofs)
                            ELSE mintSpent
            /\ gTask' = gTask \cup
                        {[pc |-> "sending", hash |-> preimageHash,
                          preimage |-> tx.preimage, call |-> n,
                          pending |-> pendingRequest,
                          res |-> res, req |-> NoReq]}

\* the invoice the next nwcWallet.makeInvoice(amount) returns
NextInvoice(amount) == NwcInvoice(Cardinality(DOMAIN lnInvoices) + 1, amount, now)

PendingReceiveRequest(alicePubkey, P) ==
    [alicePubkey |-> alicePubkey,
     blindedMessages |-> P.blindedMessages,
     requestPreimageHash |-> P.preimageHash,
     dealerPubkey |-> P.dealerPubkey]

\* a gateway that mints the HTLC while it handles make_invoice
createInvoiceAndMint(alicePubkey, P) ==
    LET inv == NextInvoice(P.amount) IN
    /\ lnInvoices' = Put(lnInvoices, inv.paymentHash, inv)
    /\ gPending' = Put(gPending, inv.paymentHash,
                       PendingReceiveRequest(alicePubkey, P))
    /\ processPayment(inv, PendingReceiveRequest(alicePubkey, P),
                      inv.paymentHash, 0)

\* createInvoiceAndWaitForPayment: the invoice is made and the pending
\* request is stored under the invoice's payment hash; nothing else
createInvoiceAndWaitForPayment(alicePubkey, P) ==
    LET inv == NextInvoice(P.amount) IN
    /\ lnInvoices' = Put(lnInvoices, inv.paymentHash, inv)
    /\ gPending' = Put(gPending, inv.paymentHash,
                       PendingReceiveRequest(alicePubkey, P))
    /\ UNCHANGED <<gStore, mintSpent, gTask>>

\* handleNostrMessageForGateway, make_invoice: the parameters are checked,
\* the invoice is created and returned
GwMakeInvoice ==
    /\ \E m \in RequestsTo(Gateway, "make_invoice") :
          LET P == m.params IN
          IF \/ MissingAmount(P) \/ Missing(P, "preimageHash")
             \/ Missing(P, "blindedMessages") \/ Missing(P, "dealerPubkey")
          THEN /\ net' = (net \ {m}) \cup
                         {Resp(m, createErrorResponse(-32602,
                                     "Missing required parameters"))}
               /\ UNCHANGED <<lnInvoices, gPending, gStore, mintSpent, gTask>>
          ELSE /\ createInvoiceAndWaitForPayment(m.from, P)
               /\ net' = (net \ {m}) \cup
                         {Resp(m, createResponse(
                                     [success |-> TRUE,
                                      data |-> [invoice |->
                                                   Bolt11(NextInvoice(P.amount))]]))}
    /\ UNCHANGED <<now, trackerVars, unitVars, aStore, dStore, aFlow, aPending, aTask,
                   dPending, dCount, dTask, gProcessed,
                   gTracked, lnNotified, extCount, swapLog, sent, ignored, sendVars>>

\* the 800 ms test timer: the gateway pays its own invoice
GwTestAutoPay ==
    /\ \E h \in DOMAIN lnInvoices :
          /\ ~lnInvoices[h].paid
          /\ lnInvoices' = [lnInvoices EXCEPT ![h].paid = TRUE]
    /\ UNCHANGED <<net, now, trackerVars, unitVars, mintSpent, aStore, gStore, dStore, aFlow, aPending,
                   aTask, dPending, dCount, dTask, gPending, gProcessed, gTask,
                   gTracked, lnNotified, extCount, swapLog, sent, ignored, sendVars>>

\* a listener that does not consult processedPayments
GwProcessesNoDedup(processed, pending, preimage) ==
    Has(pending, Sha256(preimage))

\* whether the listener goes on to processPayment for this notification
GwProcesses(processed, pending, preimage) ==
    /\ preimage \notin processed
    /\ Has(pending, Sha256(preimage))

\* a payment_received notification (the backend may deliver one more than
\* once): the listener up to the await of the mint inside sendHTLC
GwPaymentReceived ==
    /\ \E h \in DOMAIN lnInvoices :
          LET tx == lnInvoices[h]
              preimageHash == Sha256(tx.preimage)
          IN
          /\ tx.paid
          /\ lnNotified < MaxNotifs
          /\ lnNotified' = lnNotified + 1
          /\ gProcessed' = gProcessed \cup {tx.preimage}
          /\ IF ~GwProcesses(gProcessed, gPending, tx.preimage)
             THEN UNCHANGED <<gStore, mintSpent, gTask>>
             ELSE processPayment(tx, gPending[preimageHash], preimageHash,
                                 lnNotified + 1)
    /\ UNCHANGED <<net, now, trackerVars, unitVars, aStore, dStore, aFlow, aPending, aTask,
                   dPending, dCount, dTask, gPending,
                   gTracked, lnInvoices, extCount, swapLog, sent, ignored, sendVars>>

\* processPayment after sendHTLC returned: save the change, sign the SIG_ALL
\* message, attach the witness to every proof, track the proofs, send
\* swap_htlc to the dealer. A failed send throws: the listener logs it and
\* keeps the pending request
GwHtlcMinted ==
    /\ \E t \in gTask :
          /\ t.pc = "sending"
          /\ IF ~t.res.ok
             THEN /\ gTask' = gTask \ {t}
                  /\ UNCHANGED <<gStore, gTracked, net, swapLog, sent, ignored>>
             ELSE LET inputProofs == t.res.send
                      blindedMessages == t.pending.blindedMessages
                      signature == signSigAllMessage(Gateway, inputProofs,
                                                     blindedMessages)
                      witness == [signatures |-> <<signature>>,
                                  preimage |-> t.preimage]
                      signedProofs == [i \in 1..Len(inputProofs) |->
                                          [inputProofs[i] EXCEPT !.witness = witness]]
                      req == Req(Gateway, t.pending.dealerPubkey, "swap_htlc",
                                 [htlcToken |-> [proofs |-> signedProofs],
                                  blindedMessages |-> blindedMessages,
                                  requestPreimageHash |-> t.pending.requestPreimageHash,
                                  preimage |-> t.preimage,
                                  alicePubkey |-> t.pending.alicePubkey])
                  IN /\ gStore' = saveProofs(gStore, t.res.keep)
                     /\ ignored' = ignored \cup IgnoredRows(gStore, t.res.keep)
                     /\ gTracked' = Put(gTracked, t.hash, inputProofs)
                     /\ net' = net \cup {req}
                     /\ swapLog' = swapLog \cup {req}
                     /\ sent' = Sent(<<"payment", t.call>>, "swap_htlc")
                     /\ gTask' = (gTask \ {t}) \cup
                                 {[t EXCEPT !.pc = "wait_dealer", !.req = req]}
    /\ UNCHANGED <<now, trackerVars, unitVars, mintSpent, aStore, dStore, aFlow, aPending, aTask,
                   dPending, dCount, dTask, gPending, gProcessed,
                   lnInvoices, lnNotified, extCount, sendVars>>

\* the dealer answered swap_htlc, with a result or with an error:
\* processPayment returns and the listener deletes the pending request
GwDealerResponse ==
    /\ \E t \in gTask :
          /\ t.pc = "wait_dealer"
          /\ \E m \in ResponsesTo(t.req) :
                /\ net' = net \ {m}
                /\ gPending' = Del(gPending, t.hash)
                /\ gTask' = gTask \ {t}
    /\ UNCHANGED <<now, trackerVars, unitVars, mintSpent, aStore, gStore, dStore, aFlow, aPending, aTask,
                   dPending, dCount, dTask, gProcessed,
                   gTracked, lnInvoices, lnNotified, extCount, swapLog, sent, ignored, sendVars>>

\* requestAndWaitForResponse rejects with 'Request timeout': processPayment
\* throws, the listener logs it and keeps the pending request
GwDealerTimeout ==
    /\ \E t \in gTask :
          /\ t.pc = "wait_dealer"
          /\ gTask' = gTask \ {t}
    /\ UNCHANGED <<net, now, trackerVars, unitVars, mintSpent, aStore, gStore, dStore, aFlow, aPending,
                   aTask, dPending, dCount, dTask, gPending, gProcessed,
                   gTracked, lnInvoices, lnNotified, extCount, swapLog, sent, ignored, sendVars>>


(***************************************************************************)
(* Environment: another relay client, and the clock.                       *)
(***************************************************************************)
\* the totals of the blinded messages the other client encloses
OtherTotals == {2}
\* the amounts it asks an invoice for (0 stands for a request without one)
OtherAmounts == {0, 1, 2}

\* any relay client can send the gateway a make_invoice request; this one
\* encloses outputs locked to its own key
OtherMakeInvoice(a, b) ==
    /\ extCount < MaxExternal
    /\ extCount' = extCount + 1
    /\ LET od == createP2PKBlindedMessages(b, Pub(Other), <<"ext", extCount + 1>>)
           P == [amount |-> a, preimageHash |-> Sha256(200 + extCount),
                 blindedMessages |-> BlindedMessagesOf(od),
                 dealerPubkey |-> Dealer]
       IN net' = net \cup {Req(Other, Gateway, "make_invoice", P)}
    /\ UNCHANGED <<now, trackerVars, unitVars, mintSpent, aStore, gStore, dStore, aFlow, aPending, aTask,
                   dPending, dCount, dTask, gPending, gProcessed, gTask,
                   gTracked, lnInvoices, lnNotified, swapLog, sent, ignored, sendVars>>

Tick ==
    /\ now < MaxTime
    /\ now' = now + 1
    /\ UNCHANGED <<net, trackerVars, unitVars, mintSpent, aStore, gStore, dStore, aFlow, aPending, aTask,
                   dPending, dCount, dTask, gPending, gProcessed, gTask,
                   gTracked, lnInvoices, lnNotified, extCount, swapLog, sent, ignored, sendVars>>

(***************************************************************************)
(* Alice: the pay command (payThroughGateway).                             *)
(***************************************************************************)
\* decoded.paymentHash of an invoice that carries no payment hash
NoPaymentHash == <<"none", 0>>

\* invoices of payees on the Lightning network: the first names 3 sats,
\* the second names no amount; both expire at time 1. The fourth names
\* 3 sats and decodes without a payment hash.
ExtInvoice(i) ==
    [paymentHash |-> IF i = 4 THEN NoPaymentHash ELSE Sha256(50 + i),
     amountSat |-> IF i \in {1, 4} THEN 3 ELSE 0,
     expiryUnixSec |-> 1]

PayInvoices == {1, 2}

\* the invoice argument of the pay command: also a string that is no
\* BOLT11 invoice (3) and an invoice without a payment hash (4)
PayCommandInvoices == PayInvoices \cup {3, 4}

\* parseBolt11Invoice(invoice).valid
InvoiceValid(i) == i # 3
\* the amount argument of the pay command (0: not given)
PayAmountArgs == {0, 1, 3}

\* the preimage the payee releases when the invoice is paid
LnPreimage(paymentHash) == paymentHash[2]

NoResult == [ok |-> FALSE, send |-> <<>>, keep |-> <<>>]

NewPay == [pc |-> "new", invoice |-> ExtInvoice(0), amountSat |-> 0,
           inputs |-> <<>>, res |-> NoResult, req |-> NoReq]

\* the HTLC config payThroughGateway hands to sendHTLC
AliceHTLCConfig(decoded) ==
    [preimageHash |-> decoded.paymentHash,
     sigflag |-> <<>>, pubkeys |-> <<>>, n_sigs |-> <<>>,
     locktime |-> <<decoded.expiryUnixSec>>,
     refund |-> <<>>, n_sigs_refund |-> <<>>]

\* the amount checks of payThroughGateway: the error it returns, if any
PayArgsError(decoded, amount) ==
    IF decoded.amountSat # 0
    THEN amount # 0 /\ amount # decoded.amountSat
    ELSE amount = 0

\* payThroughGateway returns an error before it touches the wallet
PayInputErrorNoHashCheck(i, amount) ==
    \/ ~InvoiceValid(i)
    \/ PayArgsError(ExtInvoice(i), amount)

PayInputError(i, amount) ==
    \/ ~InvoiceValid(i)
    \/ PayArgsError(ExtInvoice(i), amount)
    \/ ExtInvoice(i).paymentHash = NoPaymentHash

\* the command up to the await of the mint inside sendHTLC: the arguments
\* are checked, the inputs are selected and removed from the store
AlicePay(p, i, amount) ==
    /\ aPay[p].pc = "new"
    /\ \A q \in 1..(p - 1) : aPay[q].pc # "new"
    /\ LET decoded == ExtInvoice(i)
           amountSat == IF decoded.amountSat # 0 THEN decoded.amountSat ELSE amount
       IN IF PayInputError(i, amount)
          THEN /\ aPay' = [aPay EXCEPT ![p].pc = "failed",
                                       ![p].invoice = decoded]
               /\ UNCHANGED <<aStore, mintSpent>>
          ELSE \E proofs \in {SelectSend(aStore, amountSat)} :
               \E res \in {WalletSend(mintSpent, amountSat, proofs,
                                      AliceHTLCConfig(decoded), <<"pay", p>>, now)} :
                  IF proofs = <<>>
                  THEN /\ aPay' = [aPay EXCEPT ![p].pc = "failed",
                                               ![p].invoice = decoded]
                       /\ UNCHANGED <<aStore, mintSpent>>
                  ELSE /\ aStore' = removeProofs(aStore, proofs)
                       /\ mintSpent' = IF res.ok THEN MintSpend(mintSpent, proofs)
                                       ELSE mintSpent
                       /\ aPay' = [aPay EXCEPT ![p] =
                                      [NewPay EXCEPT !.pc = "minting",
                                                     !.invoice = decoded,
                                                     !.amountSat = amountSat,
                                                     !.inputs = proofs,
                                                     !.res = res]]
    /\ UNCHANGED <<net, now, trackerVars, unitVars, gStore, dStore, aFlow, aPending, aTask,
                   dPending, dCount, dTask, gPending, gProcessed, gTask,
                   gTracked, lnInvoices, lnNotified, extCount, swapLog, sent, ignored,
                   gPay, lnPaid>>

\* sendHTLC returned: the change is saved and the token goes to the gateway
\* in a pay_invoice request; the token is kept nowhere else
AlicePayMinted(p) ==
    /\ aPay[p].pc = "minting"
    /\ IF ~aPay[p].res.ok \/ aPay[p].res.send = <<>>
       THEN /\ aPay' = [aPay EXCEPT ![p].pc = "failed"]
            /\ UNCHANGED <<aStore, net, sent, ignored>>
       ELSE LET req == Req(Alice, Gateway, "pay_invoice",
                           [invoice |-> aPay[p].invoice,
                            token |-> [proofs |-> aPay[p].res.send]])
            IN /\ aStore' = saveProofs(aStore, aPay[p].res.keep)
               /\ ignored' = ignored \cup IgnoredRows(aStore, aPay[p].res.keep)
               /\ net' = net \cup {req}
               /\ sent' = Sent(<<"pay", p>>, "pay_invoice")
               /\ aPay' = [aPay EXCEPT ![p].pc = "wait_gateway", ![p].req = req]
    /\ UNCHANGED <<now, trackerVars, unitVars, mintSpent, gStore, dStore, aFlow, aPending, aTask,
                   dPending, dCount, dTask, gPending, gProcessed, gTask,
                   gTracked, lnInvoices, lnNotified, extCount, swapLog,
                   gPay, lnPaid>>

\* the gateway answered: success, or the error it reported
AlicePayResponse(p) ==
    /\ aPay[p].pc = "wait_gateway"
    /\ \E m \in ResponsesTo(aPay[p].req) :
          /\ net' = net \ {m}
          /\ aPay' = [aPay EXCEPT ![p].pc = IF m.body.ok THEN "done"
                                            ELSE "rejected"]
    /\ UNCHANGED <<now, trackerVars, unitVars, mintSpent, aStore, gStore, dStore, aFlow, aPending, aTask,
                   dPending, dCount, dTask, gPending, gProcessed, gTask,
                   gTracked, lnInvoices, lnNotified, extCount, swapLog, sent, ignored,
                   gPay, lnPaid>>

\* requestAndWaitForResponse rejects with 'Request timeout'
AlicePayTimeout(p) ==
    /\ aPay[p].pc = "wait_gateway"
    /\ aPay' = [aPay EXCEPT ![p].pc = "timeout"]
    /\ UNCHANGED <<net, now, trackerVars, unitVars, mintSpent, aStore, gStore, dStore, aFlow, aPending,
                   aTask, dPending, dCount, dTask, gPending, gProcessed, gTask,
                   gTracked, lnInvoices, lnNotified, extCount, swapLog, sent, ignored,
                   gPay, lnPaid>>

\* a subscription that resolves a call whatever its state
AlicePayLateResolves(p) ==
    /\ aPay[p].req.type = "req"
    /\ \E m \in {x \in net : x.type = "resp" /\ x.to = Alice /\ x.re = aPay[p].req} :
          /\ m.from # aPay[p].req.to \/ aPay[p].pc # "wait_gateway"
          /\ net' = net \ {m}
          /\ aPay' = [aPay EXCEPT ![p].pc = IF m.body.ok THEN "done" ELSE "rejected"]
    /\ UNCHANGED <<now, trackerVars, unitVars, mintSpent, aStore, gStore, dStore, aFlow, aPending, aTask,
                   dPending, dCount, dTask, gPending, gProcessed, gTask,
                   gTracked, lnInvoices, lnNotified, extCount, swapLog, sent,
                   ignored, gPay, lnPaid>>

\* the subscription of a call gets an event tagged with the call's request
\* id that does not resolve it: the event is not from the recipient (the
\* callback returns), or the promise is settled already (resolve does nothing)
AlicePayLateResponse(p) ==
    /\ aPay[p].req.type = "req"
    /\ \E m \in {x \in net : x.type = "resp" /\ x.to = Alice /\ x.re = aPay[p].req} :
          /\ m.from # aPay[p].req.to \/ aPay[p].pc # "wait_gateway"
          /\ net' = net \ {m}
    /\ UNCHANGED <<now, trackerVars, unitVars, mintSpent, aStore, gStore, dStore, aFlow, aPending, aTask,
                   dPending, dCount, dTask, gPending, gProcessed, gTask,
                   gTracked, lnInvoices, lnNotified, extCount, swapLog, sent,
                   ignored, aPay, gPay, lnPaid>>

(***************************************************************************)
(* Gateway: pay_invoice (handleNostrMessageForGateway and payInvoice).     *)
(***************************************************************************)
\* a gateway that takes every token as matching the invoice
HtlcMatchesAlways(token, invoice) == TRUE

\* payInvoice's check: the data of the token's first secret is the payment
\* hash of the invoice
HtlcMatchesInvoice(token, invoice) ==
    SecretData(token.proofs[1]) = invoice.paymentHash

\* the witness receiveHTLCToken attaches to every proof: the preimage and
\* the key's signature on the proof's own secret
HTLCWitnessed(proofs, preimage, privateKey) ==
    [i \in 1..Len(proofs) |->
        [proofs[i] EXCEPT !.witness =
            [signatures |-> <<signP2PKSecret(proofs[i].secret, privateKey)>>,
             preimage |-> preimage]]]

\* the handler up to the await of nwcWallet.payInvoice: missing parameters
\* answer -32602; a token that does not match the invoice makes payInvoice
\* throw, which the handler answers with -32603
GwPayInvoice ==
    /\ \E m \in RequestsTo(Gateway, "pay_invoice") :
          LET P == m.params IN
          IF Missing(P, "invoice") \/ Missing(P, "token")
          THEN /\ net' = (net \ {m}) \cup
                         {Resp(m, createErrorResponse(-32602,
                                     "Usage: pay_invoice <invoice> <token>"))}
               /\ UNCHANGED gPay
          ELSE IF ~HtlcMatchesInvoice(P.token, P.invoice)
          THEN /\ net' = (net \ {m}) \cup
                         {Resp(m, createErrorResponse(-32603,
                                     "Preimage hash does not match payment hash"))}
               /\ UNCHANGED gPay
          ELSE /\ net' = net \ {m}
               /\ gPay' = gPay \cup {[pc |-> "paying", req |-> m,
                                      preimage |-> 0, res |-> NoResult]}
    /\ UNCHANGED <<now, trackerVars, unitVars, mintSpent, aStore, gStore, dStore, aFlow, aPending, aTask,
                   dPending, dCount, dTask, gPending, gProcessed, gTask,
                   gTracked, lnInvoices, lnNotified, extCount, swapLog, sent, ignored,
                   aPay, lnPaid>>

\* nwcWallet.payInvoice returned or threw (no route, or already paid); with
\* the preimage, receiveHTLCToken sends the witnessed proofs to the mint
GwLnPaid ==
    /\ \E t \in gPay : \E lnOk \in BOOLEAN :
          LET P == t.req.params
              h == P.invoice.paymentHash
              preimage == LnPreimage(h)
              proofs == HTLCWitnessed(P.token.proofs, preimage, Gateway)
              res == WalletReceive(mintSpent, proofs,
                                   <<"claim", h, Cardinality(lnPaid) + 1>>, now)
          IN
          /\ t.pc = "paying"
          /\ IF ~lnOk \/ h \in lnPaid
             THEN /\ gPay' = gPay \ {t}
                  /\ net' = net \cup
                            {Resp(t.req, createErrorResponse(-32603,
                                            "Failed to pay invoice"))}
                  /\ UNCHANGED <<lnPaid, mintSpent>>
             ELSE /\ lnPaid' = lnPaid \cup {h}
                  /\ mintSpent' = IF res.ok
                                  THEN MintSpend(mintSpent, P.token.proofs)
                                  ELSE mintSpent
                  /\ gPay' = (gPay \ {t}) \cup
                             {[t EXCEPT !.pc = "claiming", !.preimage = preimage,
                                        !.res = [ok |-> res.ok, send |-> res.proofs,
                                                 keep |-> <<>>]]}
                  /\ UNCHANGED net
    /\ UNCHANGED <<now, trackerVars, unitVars, aStore, gStore, dStore, aFlow, aPending, aTask,
                   dPending, dCount, dTask, gPending, gProcessed, gTask,
                   gTracked, lnInvoices, lnNotified, extCount, swapLog, sent, ignored, aPay>>

\* the mint answered: the fresh proofs are saved and the request is
\* answered with the preimage; a failed claim is answered with -32603
GwClaimed ==
    /\ \E t \in gPay :
          /\ t.pc = "claiming"
          /\ gPay' = gPay \ {t}
          /\ IF t.res.ok
             THEN /\ gStore' = saveProofs(gStore, t.res.send)
                  /\ ignored' = ignored \cup IgnoredRows(gStore, t.res.send)
                  /\ net' = net \cup
                            {Resp(t.req, createResponse(
                                     [success |-> TRUE,
                                      data |-> [preimage |-> t.preimage]]))}
             ELSE /\ net' = net \cup
                            {Resp(t.req, createErrorResponse(-32603,
                                            "Failed to claim HTLC token"))}
                  /\ UNCHANGED <<gStore, ignored>>
    /\ UNCHANGED <<now, trackerVars, unitVars, mintSpent, aStore, dStore, aFlow, aPending, aTask,
                   dPending, dCount, dTask, gPending, gProcessed, gTask,
                   gTracked, lnInvoices, lnNotified, extCount, swapLog, sent,
                   aPay, lnPaid>>

\* the requests another relay client sends the gateway: a token locked to
\* a hash that is not the invoice's, no token at all, or a token of one
\* sat locked to the invoice's hash that the mint never signed
OtherPayKinds == {"mismatch", "notoken", "short"}

OtherPayInvoice(i, kind) ==
    /\ extCount < MaxExternal
    /\ extCount' = extCount + 1
    /\ LET invoice == ExtInvoice(i)
           secret == HTLCSecret(AliceHTLCConfig(IF kind = "short" THEN invoice
                                                ELSE ExtInvoice(i + 10)),
                                << <<"ext", extCount + 1>>, 1 >>)
           proof == [id |-> KeysetId, amount |-> 1, secret |-> secret,
                     C |-> <<"junk", secret, 0>>, witness |-> NoWitness]
           P == IF kind = "notoken" THEN [invoice |-> invoice]
                ELSE [invoice |-> invoice, token |-> [proofs |-> <<proof>>]]
       IN net' = net \cup {Req(Other, Gateway, "pay_invoice", P)}
    /\ UNCHANGED <<now, trackerVars, unitVars, mintSpent, aStore, gStore, dStore, aFlow, aPending, aTask,
                   dPending, dCount, dTask, gPending, gProcessed, gTask,
                   gTracked, lnInvoices, lnNotified, swapLog, sent, ignored, sendVars>>

\* the bodies of the events another relay client tags with the id of a
\* request that is not addressed to it
ForgedBodies ==
    {createResponse([success |-> TRUE, data |-> [preimage |-> 0]]),
     createErrorResponse(-32603, "Failed to pay invoice")}

\* event ids and tags are public on the relay: another client publishes an
\* event for Alice that carries the e-tag of one of her pay_invoice requests
OtherResponse(p, body) ==
    /\ extCount < MaxExternal
    /\ extCount' = extCount + 1
    /\ aPay[p].req.type = "req"
    /\ net' = net \cup {[type |-> "resp", from |-> Other, to |-> Alice,
                         re |-> aPay[p].req, body |-> body]}
    /\ UNCHANGED <<now, trackerVars, unitVars, mintSpent, aStore, gStore, dStore, aFlow, aPending, aTask,
                   dPending, dCount, dTask, gPending, gProcessed, gTask,
                   gTracked, lnInvoices, lnNotified, swapLog, sent, ignored,
                   sendVars>>

(***************************************************************************)
(* The rest of the request handlers, and requests of any relay client.     *)
(***************************************************************************)
\* a handler whose last statement reports an internal error
MethodNotFoundAsInternal(m) ==
    Resp(m, createErrorResponse(-32603, <<"Method not found", m.method>>))

\* a request answered by the handler's last statement
MethodNotFound(m) ==
    Resp(m, createErrorResponse(-32601, <<"Method not found", m.method>>))

\* handleNostrMessageForAlice: every method but blinded_signatures
AliceOtherMethod ==
    /\ \E m \in {x \in net : x.type = "req" /\ x.to = Alice
                             /\ x.method # "blinded_signatures"} :
          net' = (net \ {m}) \cup {MethodNotFound(m)}
    /\ UNCHANGED <<now, trackerVars, unitVars, mintSpent, aStore, gStore, dStore, aFlow, aPending, aTask,
                   dPending, dCount, dTask, gPending, gProcessed, gTask,
                   gTracked, lnInvoices, lnNotified, extCount, swapLog, sent,
                   ignored, sendVars>>

\* a listen loop without the test of message.method: a response the dealer
\* receives goes to the handler too and is answered as an unknown method
DealerOtherMethodAnswersAll ==
    /\ \E m \in {x \in net : /\ x.to = Dealer
                             /\ x.type = "req" =>
                                  x.method \notin {"request_dealer_fee", "swap_htlc"}} :
          net' = (net \ {m}) \cup
                 {IF m.type # "req"
                  THEN [type |-> "resp", from |-> m.to, to |-> m.from, re |-> m,
                        body |-> createErrorResponse(-32601, <<"Method not found">>)]
                  ELSE IF m.method = "info"
                  THEN Resp(m, createResponse([type |-> "dealer", name |-> "Dealer"]))
                  ELSE MethodNotFound(m)}
    /\ UNCHANGED <<now, trackerVars, unitVars, mintSpent, aStore, gStore, dStore, aFlow, aPending, aTask,
                   dPending, dCount, dTask, gPending, gProcessed, gTask,
                   gTracked, lnInvoices, lnNotified, extCount, swapLog, sent,
                   ignored, sendVars>>

\* the dealer's handleRequest: info, and every method it does not know
DealerOtherMethod ==
    /\ \E m \in {x \in net : x.type = "req" /\ x.to = Dealer
                             /\ x.method \notin {"request_dealer_fee", "swap_htlc"}} :
          net' = (net \ {m}) \cup
                 {IF m.method = "info"
                  THEN Resp(m, createResponse([type |-> "dealer", name |-> "Dealer"]))
                  ELSE MethodNotFound(m)}
    /\ UNCHANGED <<now, trackerVars, unitVars, mintSpent, aStore, gStore, dStore, aFlow, aPending, aTask,
                   dPending, dCount, dTask, gPending, gProcessed, gTask,
                   gTracked, lnInvoices, lnNotified, extCount, swapLog, sent,
                   ignored, sendVars>>

\* handleNostrMessageForGateway: info, and every method it does not know
GwOtherMethod ==
    /\ \E m \in {x \in net : x.type = "req" /\ x.to = Gateway
                             /\ x.method \notin {"pay_invoice", "make_invoice"}} :
          net' = (net \ {m}) \cup
                 {IF m.method = "info"
                  THEN Resp(m, createResponse([type |-> "gateway", name |-> "Gateway"]))
                  ELSE MethodNotFound(m)}
    /\ UNCHANGED <<now, trackerVars, unitVars, mintSpent, aStore, gStore, dStore, aFlow, aPending, aTask,
                   dPending, dCount, dTask, gPending, gProcessed, gTask,
                   gTracked, lnInvoices, lnNotified, extCount, swapLog, sent,
                   ignored, sendVars>>

\* a proof the mint never signed, locked to payment hash h
JunkHTLC(h, nonce) ==
    LET secret == HTLCSecret(AliceHTLCConfig([paymentHash |-> h,
                                              expiryUnixSec |-> 1]), nonce)
    IN [id |-> KeysetId, amount |-> 1, secret |-> secret,
        C |-> <<"junk", secret, 0>>, witness |-> NoWitness]

\* requests a relay client may send the peers: methods they do not have,
\* known methods without their parameters, and well-formed requests that
\* name a hash of Alice's or enclose proofs the mint never signed
OtherRequests ==
    LET h == Sha256(AlicePreimage(1))
        junk == [proofs |-> <<JunkHTLC(Sha256(51), << <<"ext", 0>>, 1 >>)>>]
    IN {[to |-> Alice, method |-> "info", params |-> EmptyMap],
        [to |-> Dealer, method |-> "info", params |-> EmptyMap],
        [to |-> Gateway, method |-> "info", params |-> EmptyMap],
        [to |-> Dealer, method |-> "balance", params |-> EmptyMap],
        [to |-> Gateway, method |-> "balance", params |-> EmptyMap],
        [to |-> Alice, method |-> "blinded_signatures",
         params |-> [preimageHash |-> h]],
        [to |-> Alice, method |-> "blinded_signatures",
         params |-> [preimageHash |-> h, blindedSignatures |-> <<>>]],
        [to |-> Alice, method |-> "blinded_signatures",
         params |-> [preimageHash |-> h,
                     blindedSignatures |-> <<MintSign(
                         [B_ |-> blindMessage(PlainSecret(<< <<"ext", 0>>, 1 >>),
                                              <<"r", <<"ext", 0>>, 1>>),
                          amount |-> 1, id |-> KeysetId])>>]],
        [to |-> Dealer, method |-> "request_dealer_fee",
         params |-> [preimageHash |-> h]],
        [to |-> Dealer, method |-> "request_dealer_fee",
         params |-> [preimageHash |-> h, amount |-> 1]],
        [to |-> Dealer, method |-> "swap_htlc",
         params |-> [htlcToken |-> junk, preimage |-> 7]],
        [to |-> Dealer, method |-> "swap_htlc",
         params |-> [htlcToken |-> junk, blindedMessages |-> <<>>,
                     requestPreimageHash |-> h, preimage |-> 7,
                     alicePubkey |-> Other]],
        [to |-> Gateway, method |-> "pay_invoice",
         params |-> [invoice |-> ExtInvoice(1), token |-> junk]]}

\* another relay client publishes a request; every event has its own id
OtherRequest(q) ==
    /\ extCount < MaxExternal
    /\ extCount' = extCount + 1
    /\ net' = net \cup {Req(Other, q.to, q.method, q.params) @@ [id |-> extCount]}
    /\ UNCHANGED <<now, trackerVars, unitVars, mintSpent, aStore, gStore, dStore, aFlow, aPending, aTask,
                   dPending, dCount, dTask, gPending, gProcessed, gTask,
                   gTracked, lnInvoices, lnNotified, swapLog, sent, ignored,
                   sendVars>>

(***************************************************************************)
(* Specifications.                                                         *)
(***************************************************************************)
AliceFunds == <<4, 2>>
GatewayFunds == <<8, 4>>

Init ==
    /\ net = {}
    /\ now = 0
    /\ mintSpent = {}
    /\ aStore = saveProofs(EmptyMap, InitialProofs(Alice, AliceFunds))
    /\ gStore = saveProofs(EmptyMap, InitialProofs(Gateway, GatewayFunds))
    /\ dStore = EmptyMap
    /\ aFlow = [f \in 1..MaxFlows |-> NewFlow]
    /\ aPending = EmptyMap
    /\ aTask = {}
    /\ dPending = EmptyMap
    /\ dCount = 0
    /\ dTask = {}
    /\ gPending = EmptyMap
    /\ gProcessed = {}
    /\ gTask = {}
    /\ gTracked = EmptyMap
    /\ lnInvoices = EmptyMap
    /\ lnNotified = 0
    /\ extCount = 0
    /\ aPay = [p \in 1..MaxPays |-> NewPay]
    /\ gPay = {}
    /\ lnPaid = {}
    /\ swapLog = {}
    /\ sent = EmptyMap
    /\ ignored = {}
    /\ tSub = NoSubscription
    /\ tMaps = <<>>
    /\ tStates = EmptyMap
    /\ tTask = {}
    /\ tCalls = <<>>
    /\ tReported = {}
    /\ mSubs = <<>>
    /\ mWitness = EmptyMap
    /\ calc = NoCalc
    /\ wWallet = "null"
    /\ wPc = "none"
    /\ wReady = FALSE
    /\ wCache = FALSE
    /\ wDb = {}
    /\ wResult = NoCall
    /\ dups = 0
    /\ gMaking = {}

Next ==
    \/ \E f \in 1..MaxFlows, N \in ReceiveAmounts : AliceReceive(f, N)
    \/ \E f \in 1..MaxFlows : AliceFeeResponse(f)
    \/ \E f \in 1..MaxFlows : AliceInvoiceResponse(f)
    \/ \E f \in 1..MaxFlows : AliceReceiveTimeout(f)
    \/ AliceBlindedSignatures
    \/ AliceBlindedSignaturesDone
    \/ DealerRequestFee
    \/ DealerSwapHtlc
    \/ DealerSwapDone
    \/ GwMakeInvoice
    \/ GwTestAutoPay
    \/ GwPaymentReceived
    \/ GwHtlcMinted
    \/ GwDealerResponse
    \/ GwDealerTimeout
    \/ \E a \in OtherAmounts, b \in OtherTotals : OtherMakeInvoice(a, b)
    \/ Tick

Spec == Init /\ [][Next]_vars

\* the subscription of listen() hands an event to its callback once more:
\* the callback keeps no record of the event ids it has seen
RelayDuplicates(m) ==
    /\ dups < MaxDups
    /\ m \in net
    /\ m.type = "req"
    /\ m.method \in {"swap_htlc", "blinded_signatures"}
    /\ Dup(m) = 0
    /\ dups' = dups + 1
    /\ net' = net \cup {m @@ [dup |-> dups + 1]}
    /\ UNCHANGED <<now, mintSpent, aStore, gStore, dStore, aFlow, aPending, aTask,
                   dPending, dCount, dTask, gPending, gProcessed, gTask, gTracked,
                   lnInvoices, lnNotified, extCount, swapLog, sent, ignored,
                   sendVars, trackerVars, calc, walletVars, gMaking>>

\* the receive flow of the three peers under repeated deliveries
DupNext ==
    \/ \E f \in 1..MaxFlows, N \in ReceiveAmounts : AliceReceive(f, N)
    \/ \E f \in 1..MaxFlows : AliceFeeResponse(f)
    \/ \E f \in 1..MaxFlows : AliceInvoiceResponse(f)
    \/ \E f \in 1..MaxFlows : AliceReceiveTimeout(f)
    \/ AliceBlindedSignatures
    \/ AliceBlindedSignaturesDone
    \/ DealerRequestFee
    \/ DealerSwapHtlc
    \/ DealerSwapDone
    \/ GwMakeInvoice
    \/ GwTestAutoPay
    \/ GwPaymentReceived
    \/ GwHtlcMinted
    \/ GwDealerResponse
    \/ GwDealerTimeout
    \/ Tick
    \/ \E m \in net : RelayDuplicates(m)

DupSpec == Init /\ [][DupNext]_vars

\* make_invoice up to the await of nwcWallet.makeInvoice: the backend has
\* made the invoice, the handler has not resumed yet
GwMakeInvoiceCalled ==
    /\ \E m \in RequestsTo(Gateway, "make_invoice") :
          LET P == m.params
              inv == NextInvoice(P.amount)
          IN /\ ~MissingAmount(P) /\ ~Missing(P, "preimageHash")
             /\ ~Missing(P, "blindedMessages") /\ ~Missing(P, "dealerPubkey")
             /\ net' = net \ {m}
             /\ lnInvoices' = Put(lnInvoices, inv.paymentHash, inv)
             /\ gMaking' = gMaking \cup {[req |-> m, inv |-> inv]}
    /\ UNCHANGED <<now, mintSpent, aStore, gStore, dStore, aFlow, aPending, aTask,
                   dPending, dCount, dTask, gPending, gProcessed, gTask, gTracked,
                   lnNotified, extCount, swapLog, sent, ignored,
                   sendVars, trackerVars, calc, walletVars, dups>>

\* nwcWallet.makeInvoice returned: the pending request is stored under the
\* invoice's payment hash and the invoice is returned to the requester
GwInvoiceMade ==
    /\ \E t \in gMaking :
          /\ gMaking' = gMaking \ {t}
          /\ gPending' = Put(gPending, t.inv.paymentHash,
                             PendingReceiveRequest(t.req.from, t.req.params))
          /\ net' = net \cup
                    {Resp(t.req, createResponse(
                                    [success |-> TRUE,
                                     data |-> [invoice |-> Bolt11(t.inv)]]))}
    /\ UNCHANGED <<now, mintSpent, aStore, gStore, dStore, aFlow, aPending, aTask,
                   dPending, dCount, dTask, gProcessed, gTask, gTracked,
                   lnInvoices, lnNotified, extCount, swapLog, sent, ignored,
                   sendVars, trackerVars, calc, walletVars, dups>>

\* an invoice of the backend is paid, by whoever holds it
LnInvoicePaid ==
    /\ \E h \in DOMAIN lnInvoices :
          /\ ~lnInvoices[h].paid
          /\ lnInvoices' = [lnInvoices EXCEPT ![h].paid = TRUE]
    /\ UNCHANGED <<net, now, mintSpent, aStore, gStore, dStore, aFlow, aPending,
                   aTask, dPending, dCount, dTask, gPending, gProcessed, gTask,
                   gTracked, lnNotified, extCount, swapLog, sent, ignored,
                   sendVars, trackerVars, unitVars>>

\* the receive flow with the gateway's make_invoice handler in its two
\* parts, before and after the await of the backend
ListenerNext ==
    \/ \E f \in 1..MaxFlows, N \in ReceiveAmounts : AliceReceive(f, N)
    \/ \E f \in 1..MaxFlows : AliceFeeResponse(f)
    \/ \E f \in 1..MaxFlows : AliceInvoiceResponse(f)
    \/ AliceBlindedSignatures
    \/ AliceBlindedSignaturesDone
    \/ DealerRequestFee
    \/ DealerSwapHtlc
    \/ DealerSwapDone
    \/ GwMakeInvoiceCalled
    \/ GwInvoiceMade
    \/ LnInvoicePaid
    \/ GwPaymentReceived
    \/ GwHtlcMinted
    \/ GwDealerResponse
    \/ GwDealerTimeout

ListenerSpec == Init /\ [][ListenerNext]_vars

SendNext ==
    \/ \E p \in 1..MaxPays, i \in PayCommandInvoices, a \in PayAmountArgs :
          AlicePay(p, i, a)
    \/ \E p \in 1..MaxPays : AlicePayMinted(p)
    \/ \E p \in 1..MaxPays : AlicePayResponse(p)
    \/ \E p \in 1..MaxPays : AlicePayTimeout(p)
    \/ \E p \in 1..MaxPays : AlicePayLateResponse(p)
    \/ GwPayInvoice
    \/ GwLnPaid
    \/ GwClaimed
    \/ \E i \in PayInvoices, kind \in OtherPayKinds : OtherPayInvoice(i, kind)
    \/ \E p \in 1..MaxPays, body \in ForgedBodies : OtherResponse(p, body)
    \/ Tick

SendSpec == Init /\ [][SendNext]_vars

(***************************************************************************)
(* The proof store under its own operations: direct saveProofs and         *)
(* removeProofs calls, the CLI's receive command, and the send of          *)
(* Alice's pay command.                                                    *)
(***************************************************************************)
MaxTokens == 1
TokenAmounts == <<2, 1>>

\* the token another wallet hands to the CLI; every receive command is
\* given this token
TokenProofs(k) == InitialProofs(Other, TokenAmounts)

\* the proofs a caller may pass to saveProofs and removeProofs: a proof that
\* is new to the store, the same secret with another amount and C, and the
\* secret of a proof of Alice's initial funds with another amount
DbProofs ==
    LET fresh == PlainSecret(<< <<"db", Other>>, 1>>)
        own == InitialProofs(Alice, AliceFunds)[1]
    IN {[id |-> KeysetId, amount |-> 1, secret |-> fresh,
         C |-> ValidC(fresh, 1), witness |-> NoWitness],
        [id |-> KeysetId, amount |-> 2, secret |-> fresh,
         C |-> ValidC(fresh, 2), witness |-> NoWitness],
        [own EXCEPT !.amount = 1, !.C = ValidC(own.secret, 1)]}

\* the invoices of the pay commands that run beside the store operations
StorePayInvoices == {1}

DbProofSeqs ==
    {<<a>> : a \in DbProofs} \cup {s \in {<<a, b>> : a, b \in DbProofs} : s[1] # s[2]}

\* WalletDatabase.saveProofs(proofs)
DbSaveProofs(proofs) ==
    /\ aStore' = saveProofs(aStore, proofs)
    /\ ignored' = ignored \cup IgnoredRows(aStore, proofs)
    /\ UNCHANGED <<net, now, trackerVars, unitVars, mintSpent, gStore, dStore, aFlow, aPending, aTask,
                   dPending, dCount, dTask, gPending, gProcessed, gTask,
                   gTracked, lnInvoices, lnNotified, extCount, swapLog, sent,
                   sendVars>>

\* WalletDatabase.removeProofs(proofs)
DbRemoveProofs(proofs) ==
    /\ aStore' = removeProofs(aStore, proofs)
    /\ UNCHANGED <<net, now, trackerVars, unitVars, mintSpent, gStore, dStore, aFlow, aPending, aTask,
                   dPending, dCount, dTask, gPending, gProcessed, gTask,
                   gTracked, lnInvoices, lnNotified, extCount, swapLog, sent,
                   ignored, sendVars>>

\* the CLI's receive command, up to the await of the mint: receiveToken
\* hands the token to CashuWallet.receive
CliReceive(k) ==
    /\ \A t \in aTask : t.token # k
    /\ LET proofs == TokenProofs(k)
           res == WalletReceive(mintSpent, proofs, <<"cli", k>>, now)
       IN /\ mintSpent' = IF res.ok THEN MintSpend(mintSpent, proofs) ELSE mintSpent
          /\ aTask' = aTask \cup {[token |-> k, res |-> res]}
    /\ UNCHANGED <<net, now, trackerVars, unitVars, aStore, gStore, dStore, aFlow, aPending,
                   dPending, dCount, dTask, gPending, gProcessed, gTask,
                   gTracked, lnInvoices, lnNotified, extCount, swapLog, sent,
                   ignored, sendVars>>

\* receiveToken after the mint answered: the new proofs are saved; a failed
\* receive saves nothing
CliReceiveDone ==
    /\ \E t \in aTask :
          /\ aTask' = aTask \ {t}
          /\ IF t.res.ok
             THEN /\ aStore' = saveProofs(aStore, t.res.proofs)
                  /\ ignored' = ignored \cup IgnoredRows(aStore, t.res.proofs)
             ELSE UNCHANGED <<aStore, ignored>>
    /\ UNCHANGED <<net, now, trackerVars, unitVars, mintSpent, gStore, dStore, aFlow, aPending,
                   dPending, dCount, dTask, gPending, gProcessed, gTask,
                   gTracked, lnInvoices, lnNotified, extCount, swapLog, sent,
                   sendVars>>

StoreNext ==
    \/ \E proofs \in DbProofSeqs : DbSaveProofs(proofs)
    \/ \E proofs \in DbProofSeqs : DbRemoveProofs(proofs)
    \/ \E k \in 1..MaxTokens : CliReceive(k)
    \/ CliReceiveDone
    \/ \E p \in 1..MaxPays, i \in StorePayInvoices : AlicePay(p, i, 0)
    \/ \E p \in 1..MaxPays : AlicePayMinted(p)
    \/ \E p \in 1..MaxPays : AlicePayTimeout(p)

StoreSpec == Init /\ [][StoreNext]_vars

(***************************************************************************)
(* The gateway's proof-state tracker (ProofStateSubscriptionManager) under *)
(* the calls processPayment makes, the mint's proof-state updates, the     *)
(* loss of the mint connection and stopTracking.                           *)
(***************************************************************************)
\* HTLC proof sets processPayment hands to trackProofSet
MaxSets == 2

\* tx.preimage of the k-th tracked payment
TrackPreimage(k) == 200 + k

\* paymentHash, the id of the tracked set
TrackId(k) == Sha256(TrackPreimage(k))

\* totalAmount of the k-th HTLC: 3 sats make two proofs, 2 sats one
TrackAmount(k) == IF k % 2 = 1 THEN 3 ELSE 2

\* htlcResult.send: the HTLC-locked proofs sendHTLC returned
TrackedProofs(k) ==
    LET od == HTLCOutputs(TrackAmount(k), GwHTLCConfig(TrackId(k), 1),
                          <<"track", k, "send">>)
    IN unblindSignaturesAndCreateProofs(od, MintSignatures(BlindedMessagesOf(od)))

ProofCs(proofs) == {proofs[i].C : i \in 1..Len(proofs)}

\* Array.from(trackedSets.values()).flatMap((set) => set.proofs)
AllProofCs(trackedSets) ==
    UNION {ProofCs(trackedSets[i].proofs) : i \in 1..Len(trackedSets)}

\* trackedSets.set(id, trackedSet): a Map keeps its keys in insertion order
MapSet(trackedSets, trackedSet) ==
    IF \E i \in 1..Len(trackedSets) : trackedSets[i].id = trackedSet.id
    THEN [i \in 1..Len(trackedSets) |->
             IF trackedSets[i].id = trackedSet.id THEN trackedSet ELSE trackedSets[i]]
    ELSE Append(trackedSets, trackedSet)

\* trackedSets.delete(id)
MapDelete(trackedSets, id) == SelectSeq(trackedSets, LAMBDA e : e.id # id)

\* a tracker that calls back as soon as one proof of a set is SPENT
RECURSIVE HandleSetsSomeSpent(_, _, _, _)
HandleSetsSomeSpent(entries, c, preimage, states) ==
    IF entries = <<>> THEN [entries |-> <<>>, states |-> states, calls |-> <<>>]
    ELSE LET e == Head(entries)
             someProofSpent ==
                \E x \in ProofCs(e.proofs) : Has(states, x) /\ states[x] = "SPENT"
             e2 == IF preimage # 0 /\ e.preimage = 0
                   THEN [e EXCEPT !.preimage = preimage] ELSE e
             states2 == IF someProofSpent
                        THEN [x \in (DOMAIN states) \ ProofCs(e.proofs) |-> states[x]]
                        ELSE states
             rest == HandleSetsSomeSpent(Tail(entries), c, preimage, states2)
         IN IF someProofSpent
            THEN [entries |-> rest.entries, states |-> rest.states,
                  calls |-> <<[id |-> e2.id, preimage |-> e2.preimage]>> \o rest.calls]
            ELSE [entries |-> <<e2>> \o rest.entries, states |-> rest.states,
                  calls |-> rest.calls]

\* the loop of handleProofStateUpdate over trackedSets.entries(): every set
\* without a preimage takes the update's preimage; a set whose proofs are
\* all SPENT in proofStates gets the callback, leaves the map and its
\* proofs leave proofStates
RECURSIVE HandleSets(_, _, _, _)
HandleSets(entries, c, preimage, states) ==
    IF entries = <<>> THEN [entries |-> <<>>, states |-> states, calls |-> <<>>]
    ELSE LET e == Head(entries)
             allProofsSpent ==
                \A x \in ProofCs(e.proofs) : Has(states, x) /\ states[x] = "SPENT"
             e2 == IF preimage # 0 /\ e.preimage = 0
                   THEN [e EXCEPT !.preimage = preimage] ELSE e
             states2 == IF allProofsSpent
                        THEN [x \in (DOMAIN states) \ ProofCs(e.proofs) |-> states[x]]
                        ELSE states
             rest == HandleSets(Tail(entries), c, preimage, states2)
         IN IF allProofsSpent
            THEN [entries |-> rest.entries, states |-> rest.states,
                  calls |-> <<[id |-> e2.id, preimage |-> e2.preimage]>> \o rest.calls]
            ELSE [entries |-> <<e2>> \o rest.entries, states |-> rest.states,
                  calls |-> rest.calls]

\* handleProofStateUpdate(proofUpdate, trackedSets)
handleProofStateUpdate(c, state, witnessPreimage, trackedSets, states) ==
    LET preimage == IF state = "SPENT" THEN witnessPreimage ELSE 0
    IN HandleSets(trackedSets, c, preimage, Put(states, c, state))

\* trackProofSet up to the await of createSubscription: without a
\* subscription a new map is made for the set; with one, the set joins its
\* map and the old mint subscription is cancelled
TrackProofSet(k) ==
    /\ ~Has(gTracked, TrackId(k))
    /\ gTracked' = Put(gTracked, TrackId(k), TrackedProofs(k))
    /\ LET trackedSet == [id |-> TrackId(k), proofs |-> TrackedProofs(k),
                          preimage |-> 0]
       IN IF tSub = NoSubscription
          THEN /\ tMaps' = Append(tMaps, <<trackedSet>>)
               /\ tTask' = tTask \cup {[id |-> TrackId(k), map |-> Len(tMaps) + 1,
                                        proofs |-> ProofCs(trackedSet.proofs)]}
               /\ UNCHANGED mSubs
          ELSE LET trackedSets == MapSet(tMaps[tSub.map], trackedSet) IN
               /\ tMaps' = [tMaps EXCEPT ![tSub.map] = trackedSets]
               /\ mSubs' = [mSubs EXCEPT ![tSub.sub].live = FALSE]
               /\ tTask' = tTask \cup {[id |-> TrackId(k), map |-> tSub.map,
                                        proofs |-> AllProofCs(trackedSets)]}
    /\ UNCHANGED <<net, now, mintSpent, aStore, gStore, dStore, aFlow, aPending,
                   aTask, dPending, dCount, dTask, gPending, gProcessed, gTask,
                   lnInvoices, lnNotified, extCount, swapLog, sent, ignored,
                   sendVars, unitVars, tSub, tStates, tCalls, tReported, mWitness>>

\* createSubscription after wallet.on.proofStateUpdates resolved: the mint
\* subscription is open and this.subscription names it and the call's map
TrackSubscribed ==
    /\ \E t \in tTask :
          /\ tTask' = tTask \ {t}
          /\ mSubs' = Append(mSubs, [map |-> t.map, proofs |-> t.proofs,
                                     live |-> TRUE, told |-> EmptyMap])
          /\ tSub' = [map |-> t.map, sub |-> Len(mSubs) + 1]
    /\ UNCHANGED <<net, now, mintSpent, aStore, gStore, dStore, aFlow, aPending,
                   aTask, dPending, dCount, dTask, gPending, gProcessed, gTask,
                   gTracked, lnInvoices, lnNotified, extCount, swapLog, sent,
                   ignored, sendVars, unitVars, tMaps, tStates, tCalls, tReported, mWitness>>

\* the dealer's swap spends the k-th HTLC at the mint; every proof of the
\* token carries the witness with the preimage
MintSpendsSet(k) ==
    /\ Has(gTracked, TrackId(k))
    /\ \A t \in tTask : t.id # TrackId(k)
    /\ \A c \in ProofCs(TrackedProofs(k)) : ~Has(mWitness, c)
    /\ mWitness' = [c \in (DOMAIN mWitness) \cup ProofCs(TrackedProofs(k)) |->
                       IF c \in DOMAIN mWitness THEN mWitness[c]
                       ELSE TrackPreimage(k)]
    /\ mintSpent' = MintSpend(mintSpent, TrackedProofs(k))
    /\ UNCHANGED <<net, now, aStore, gStore, dStore, aFlow, aPending,
                   aTask, dPending, dCount, dTask, gPending, gProcessed, gTask,
                   gTracked, lnInvoices, lnNotified, extCount, swapLog, sent,
                   ignored, sendVars, unitVars, tSub, tMaps, tStates, tTask, tCalls,
                   tReported, mSubs>>

\* the mint reports the state of proof c on the open subscription s (the
\* current state after subscribing, and every change of it); the callback
\* of the subscription runs handleProofStateUpdate on the map it was
\* created with
ProofStateUpdate(s, c) ==
    /\ s \in 1..Len(mSubs)
    /\ mSubs[s].live
    /\ c \in mSubs[s].proofs
    /\ LET state == IF Has(mWitness, c) THEN "SPENT" ELSE "UNSPENT"
           witnessPreimage == IF Has(mWitness, c) THEN mWitness[c] ELSE 0
           r == handleProofStateUpdate(c, state, witnessPreimage,
                                       tMaps[mSubs[s].map], tStates)
       IN /\ IF Has(mSubs[s].told, c) THEN mSubs[s].told[c] # state ELSE TRUE
          /\ mSubs' = [mSubs EXCEPT ![s].told = Put(@, c, state)]
          /\ tMaps' = [tMaps EXCEPT ![mSubs[s].map] = r.entries]
          /\ tStates' = r.states
          /\ tCalls' = tCalls \o r.calls
          /\ tReported' = IF state = "SPENT" THEN tReported \cup {c} ELSE tReported
    /\ UNCHANGED <<net, now, mintSpent, aStore, gStore, dStore, aFlow, aPending,
                   aTask, dPending, dCount, dTask, gPending, gProcessed, gTask,
                   gTracked, lnInvoices, lnNotified, extCount, swapLog, sent,
                   ignored, sendVars, unitVars, tSub, tTask, mWitness>>

\* the mint's WebSocket closes: its subscriptions are gone and the onClose
\* handler sets this.subscription to null
WebSocketClosed ==
    /\ \E s \in 1..Len(mSubs) : mSubs[s].live
    /\ mSubs' = [s \in 1..Len(mSubs) |-> [mSubs[s] EXCEPT !.live = FALSE]]
    /\ tSub' = NoSubscription
    /\ UNCHANGED <<net, now, mintSpent, aStore, gStore, dStore, aFlow, aPending,
                   aTask, dPending, dCount, dTask, gPending, gProcessed, gTask,
                   gTracked, lnInvoices, lnNotified, extCount, swapLog, sent,
                   ignored, sendVars, unitVars, tMaps, tStates, tTask, tCalls, tReported,
                   mWitness>>

\* stopTracking(id): the set leaves the subscription's map; when the map is
\* empty, cleanup cancels the subscription and clears proofStates
StopTracking(k) ==
    /\ tSub # NoSubscription
    /\ LET trackedSets == MapDelete(tMaps[tSub.map], TrackId(k)) IN
       /\ tMaps' = [tMaps EXCEPT ![tSub.map] = trackedSets]
       /\ IF trackedSets = <<>>
          THEN /\ mSubs' = [mSubs EXCEPT ![tSub.sub].live = FALSE]
               /\ tSub' = NoSubscription
               /\ tStates' = EmptyMap
          ELSE UNCHANGED <<mSubs, tSub, tStates>>
    /\ UNCHANGED <<net, now, mintSpent, aStore, gStore, dStore, aFlow, aPending,
                   aTask, dPending, dCount, dTask, gPending, gProcessed, gTask,
                   gTracked, lnInvoices, lnNotified, extCount, swapLog, sent,
                   ignored, sendVars, unitVars, tTask, tCalls, tReported, mWitness>>

TrackerNext ==
    \/ \E k \in 1..MaxSets : TrackProofSet(k)
    \/ TrackSubscribed
    \/ \E k \in 1..MaxSets : MintSpendsSet(k)
    \/ \E s \in 1..(2 * MaxSets), k \in 1..MaxSets :
          \E c \in ProofCs(TrackedProofs(k)) : ProofStateUpdate(s, c)
    \/ WebSocketClosed
    \/ \E k \in 1..MaxSets : StopTracking(k)

TrackerSpec == Init /\ [][TrackerNext]_vars

(***************************************************************************)
(* The SIG_ALL functions of lib/p2pk-sigall.ts called on their own: one    *)
(* signature is made and then verified against some inputs and outputs.    *)
(***************************************************************************)
\* proofs, and blinded messages, per call
MaxSigLen == 2

\* a string given by its characters
Raw(chars) == [raw |-> chars]

\* input proofs: their secrets are strings, one of them the concatenation
\* of the two others
SigProofs == {[secret |-> Raw(<<"a">>)], [secret |-> Raw(<<"b">>)],
              [secret |-> Raw(<<"a", "b">>)]}

\* output blinded messages
SigOutputs == {[B_ |-> Raw(<<"a">>)], [B_ |-> Raw(<<"b">>)]}

RECURSIVE SeqsUpTo(_, _)
SeqsUpTo(S, n) ==
    IF n = 0 THEN {<<>>}
    ELSE LET shorter == SeqsUpTo(S, n - 1)
         IN shorter \cup {Append(q, x) : q \in shorter, x \in S}

SigInputLists == SeqsUpTo(SigProofs, MaxSigLen) \ {<<>>}
SigOutputLists == SeqsUpTo(SigOutputs, MaxSigLen) \ {<<>>}

\* the keys a verifier may be handed: the signer's in both encodings, and
\* another peer's
SigPubkeys == {Pub(Gateway), <<Gateway>>, Pub(Dealer)}

\* signSigAllMessage(privkey, inputProofs, outputBlindedMessages)
SigAllSign(inputProofs, outputBlindedMessages) ==
    /\ calc = NoCalc
    /\ calc' = [op |-> "signed", privkey |-> Gateway,
                inputProofs |-> inputProofs,
                outputBlindedMessages |-> outputBlindedMessages,
                signature |-> signSigAllMessage(Gateway, inputProofs,
                                                outputBlindedMessages)]
    /\ UNCHANGED <<net, now, mintSpent, aStore, gStore, dStore, aFlow, aPending,
                   aTask, dPending, dCount, dTask, gPending, gProcessed, gTask,
                   gTracked, lnInvoices, lnNotified, extCount, swapLog, sent,
                   ignored, sendVars, trackerVars, walletVars, dups, gMaking>>

\* verifySigAllSignature(signature, pubkey, inputProofs, outputBlindedMessages)
SigAllVerify(pubkey, inputProofs, outputBlindedMessages) ==
    /\ calc.op = "signed"
    /\ calc' = [op |-> "verified", privkey |-> calc.privkey,
                signed |-> [inputProofs |-> calc.inputProofs,
                            outputBlindedMessages |-> calc.outputBlindedMessages],
                pubkey |-> pubkey,
                inputProofs |-> inputProofs,
                outputBlindedMessages |-> outputBlindedMessages,
                result |-> verifySigAllSignature(calc.signature, pubkey,
                                                 inputProofs, outputBlindedMessages)]
    /\ UNCHANGED <<net, now, mintSpent, aStore, gStore, dStore, aFlow, aPending,
                   aTask, dPending, dCount, dTask, gPending, gProcessed, gTask,
                   gTracked, lnInvoices, lnNotified, extCount, swapLog, sent,
                   ignored, sendVars, trackerVars, walletVars, dups, gMaking>>

SigAllNext ==
    \/ \E i \in SigInputLists, o \in SigOutputLists : SigAllSign(i, o)
    \/ \E k \in SigPubkeys, i \in SigInputLists, o \in SigOutputLists :
          SigAllVerify(k, i, o)

SigAllSpec == Init /\ [][SigAllNext]_vars

(***************************************************************************)
(* The Wallet class on its own: initialize(), close() and the operations   *)
(* that reach the mint wallet through the private getter `wallet`.         *)
(***************************************************************************)

\* the tokens the wallet under test may be handed
MaxWalletTokens == 2

\* the message of the Error thrown by the getter `wallet`
NotInitializedError == "Wallet not initialized. Call initialize() first."

\* how a call into the cashu-ts wallet or the mint may end
LibraryOutcomes == {"ok", "library error"}

\* the getter `wallet`: throws when this._wallet is null
WalletGetterThrows == wWallet = "null"

\* what an operation leaves behind: its name, its error ("ok" when it
\* returned normally), and the wallet's situation when it was called
Result(op, error) ==
    [op |-> op, error |-> error, ready |-> wReady, before |-> wDb]

\* initialize(): this._wallet is assigned, then loadMint() is awaited
WalletInitialize ==
    /\ wPc # "loadMint"
    /\ ~wReady
    /\ wWallet' = IF wCache THEN "keys" ELSE "nokeys"
    /\ wPc' = "loadMint"
    /\ UNCHANGED <<wReady, wCache, wDb, wResult>>
    /\ UNCHANGED <<net, now, mintSpent, aStore, gStore, dStore, aFlow, aPending,
                   aTask, dPending, dCount, dTask, gPending, gProcessed, gTask,
                   gTracked, lnInvoices, lnNotified, extCount, swapLog, sent,
                   ignored, sendVars, trackerVars, calc, dups, gMaking>>

\* initialize() resumed after loadMint(): the promise rejected, or the
\* getter throws because close() ran meanwhile, or the cache is saved
WalletLoadMint(outcome) ==
    /\ wPc = "loadMint"
    /\ IF outcome = "ok" /\ ~WalletGetterThrows
          THEN /\ wWallet' = "keys"
               /\ wCache' = TRUE
               /\ wReady' = TRUE
               /\ wPc' = "done"
          ELSE /\ wPc' = "failed"
               /\ UNCHANGED <<wWallet, wCache, wReady>>
    /\ UNCHANGED <<wDb, wResult>>
    /\ UNCHANGED <<net, now, mintSpent, aStore, gStore, dStore, aFlow, aPending,
                   aTask, dPending, dCount, dTask, gPending, gProcessed, gTask,
                   gTracked, lnInvoices, lnNotified, extCount, swapLog, sent,
                   ignored, sendVars, trackerVars, calc, dups, gMaking>>

\* close()
WalletClose ==
    /\ wWallet # "null"
    /\ wWallet' = "null"
    /\ wReady' = FALSE
    /\ UNCHANGED <<wPc, wCache, wDb, wResult>>
    /\ UNCHANGED <<net, now, mintSpent, aStore, gStore, dStore, aFlow, aPending,
                   aTask, dPending, dCount, dTask, gPending, gProcessed, gTask,
                   gTracked, lnInvoices, lnNotified, extCount, swapLog, sent,
                   ignored, sendVars, trackerVars, calc, dups, gMaking>>

\* getWallet()
WalletGetWallet ==
    /\ wResult' = Result("getWallet",
                         IF WalletGetterThrows THEN NotInitializedError ELSE "ok")
    /\ UNCHANGED <<wWallet, wPc, wReady, wCache, wDb>>
    /\ UNCHANGED <<net, now, mintSpent, aStore, gStore, dStore, aFlow, aPending,
                   aTask, dPending, dCount, dTask, gPending, gProcessed, gTask,
                   gTracked, lnInvoices, lnNotified, extCount, swapLog, sent,
                   ignored, sendVars, trackerVars, calc, dups, gMaking>>

\* receiveToken(token), also as receiveHTLCToken and claimRefund call it,
\* and receiveProofsFromDealer: wallet.receive, then saveProofs
WalletReceiveToken(op, k, outcome) ==
    /\ IF WalletGetterThrows
          THEN /\ wResult' = Result(op, NotInitializedError)
               /\ UNCHANGED wDb
          ELSE /\ wResult' = Result(op, outcome)
               /\ wDb' = IF outcome = "ok" THEN wDb \cup {k} ELSE wDb
    /\ UNCHANGED <<wWallet, wPc, wReady, wCache>>
    /\ UNCHANGED <<net, now, mintSpent, aStore, gStore, dStore, aFlow, aPending,
                   aTask, dPending, dCount, dTask, gPending, gProcessed, gTask,
                   gTracked, lnInvoices, lnNotified, extCount, swapLog, sent,
                   ignored, sendVars, trackerVars, calc, dups, gMaking>>

\* sendHTLC(amount, config): selectProofsToSend reads the table, asks the
\* wallet for a selection and removes it; then wallet.send
WalletSendHTLC(k, outcome) ==
    /\ IF WalletGetterThrows
          THEN /\ wResult' = Result("sendHTLC", NotInitializedError)
               /\ UNCHANGED wDb
          ELSE /\ k \in wDb
               /\ wResult' = Result("sendHTLC", outcome)
               /\ wDb' = wDb \ {k}
    /\ UNCHANGED <<wWallet, wPc, wReady, wCache>>
    /\ UNCHANGED <<net, now, mintSpent, aStore, gStore, dStore, aFlow, aPending,
                   aTask, dPending, dCount, dTask, gPending, gProcessed, gTask,
                   gTracked, lnInvoices, lnNotified, extCount, swapLog, sent,
                   ignored, sendVars, trackerVars, calc, dups, gMaking>>

\* createP2PKBlindedMessages, receiveSigAllToken and
\* unblindSignaturesAndCreateProofs: they use the wallet and leave the
\* proofs table alone
WalletCompute(op, outcome) ==
    /\ wResult' = Result(op, IF WalletGetterThrows THEN NotInitializedError
                                                   ELSE outcome)
    /\ UNCHANGED <<wWallet, wPc, wReady, wCache, wDb>>
    /\ UNCHANGED <<net, now, mintSpent, aStore, gStore, dStore, aFlow, aPending,
                   aTask, dPending, dCount, dTask, gPending, gProcessed, gTask,
                   gTracked, lnInvoices, lnNotified, extCount, swapLog, sent,
                   ignored, sendVars, trackerVars, calc, dups, gMaking>>

ReceiveOps == {"receiveToken", "receiveHTLCToken", "claimRefund",
               "receiveProofsFromDealer"}

ComputeOps == {"createP2PKBlindedMessages", "receiveSigAllToken",
               "unblindSignaturesAndCreateProofs"}

WalletNext ==
    \/ WalletInitialize
    \/ \E outcome \in LibraryOutcomes : WalletLoadMint(outcome)
    \/ WalletClose
    \/ WalletGetWallet
    \/ \E op \in ReceiveOps, k \in 1..MaxWalletTokens, outcome \in LibraryOutcomes :
          WalletReceiveToken(op, k, outcome)
    \/ \E k \in 1..MaxWalletTokens, outcome \in LibraryOutcomes :
          WalletSendHTLC(k, outcome)
    \/ \E op \in ComputeOps, outcome \in LibraryOutcomes : WalletCompute(op, outcome)

WalletSpec == Init /\ [][WalletNext]_vars

\* the request handlers of the three peers, whole, under the requests of
\* the receive flow and of any relay client
RpcNext ==
    \/ Next
    \/ GwPayInvoice
    \/ GwLnPaid
    \/ GwClaimed
    \/ AliceOtherMethod
    \/ DealerOtherMethod
    \/ GwOtherMethod
    \/ \E q \in OtherRequests : OtherRequest(q)

RpcSpec == Init /\ [][RpcNext]_vars



\* the steps the peers take by themselves: handlers run to their end,
\* timers fire, the clock advances. Commands, requests of other clients and
\* the Lightning backend's notifications are the environment's to give
RecvSteps ==
    \/ \E f \in 1..MaxFlows : AliceFeeResponse(f)
    \/ \E f \in 1..MaxFlows : AliceInvoiceResponse(f)
    \/ \E f \in 1..MaxFlows : AliceReceiveTimeout(f)
    \/ AliceBlindedSignatures
    \/ AliceBlindedSignaturesDone
    \/ DealerRequestFee
    \/ DealerSwapHtlc
    \/ DealerSwapDone
    \/ GwMakeInvoice
    \/ GwTestAutoPay
    \/ GwHtlcMinted
    \/ GwDealerResponse
    \/ GwDealerTimeout
    \/ Tick

FairSpec == Spec /\ WF_vars(RecvSteps)

SendSteps ==
    \/ \E p \in 1..MaxPays : AlicePayMinted(p)
    \/ \E p \in 1..MaxPays : AlicePayResponse(p)
    \/ \E p \in 1..MaxPays : AlicePayTimeout(p)
    \/ \E p \in 1..MaxPays : AlicePayLateResponse(p)
    \/ GwPayInvoice
    \/ GwLnPaid
    \/ GwClaimed
    \/ Tick

FairSendSpec == SendSpec /\ WF_vars(SendSteps)

(***************************************************************************)
(* Properties of the receive flow.                                         *)
(***************************************************************************)
\* the value a store holds in proofs made by the call named (label, h)
FlowStored(store, label, h) ==
    SumSet({[y |-> y, amount |-> store[y].amount] :
              y \in {z \in DOMAIN store :
                        /\ store[z].secret.nonce[1][1] = label
                        /\ store[z].secret.nonce[1][2] = h
                        /\ IsValid(store[z])}})

HtlcProofs(r) == r.params.htlcToken.proofs

\* the HTLC of swap_htlc request r has been spent at the mint
HtlcSpent(r) ==
    \A i \in 1..Len(HtlcProofs(r)) :
        hashToCurve(HtlcProofs(r)[i].secret) \in mintSpent

\* C1: whatever payment_received notifications are delivered, duplicates
\* and overlapping ones included, the gateway sends at most one swap_htlc
\* request per distinct preimage
C1_OneSwapPerPreimage ==
    \A r1 \in swapLog : \A r2 \in swapLog :
        r1.params.preimage = r2.params.preimage => r1 = r2

\* a notification was delivered twice for the one invoice, and a swap_htlc
\* went out
C1_Witness ==
    /\ lnNotified >= 2
    /\ Cardinality(DOMAIN lnInvoices) = 1
    /\ Cardinality(swapLog) = 1

\* C2: in every receive flow in which Alice has stored proofs worth N, the
\* dealer has stored proofs worth exactly the dealer fee, and both come from
\* the one swap of the flow's HTLC
C2_DealerFeeWithAlice ==
    \A f \in 1..MaxFlows :
       LET h == aFlow[f].hash
           N == aFlow[f].amount
       IN (N > 0 /\ FlowStored(aStore, "bsig", h) = N)
          => /\ FlowStored(dStore, "fee", h) = DEALER_FEE
             /\ \E r \in swapLog : /\ r.params.requestPreimageHash = h
                                   /\ HtlcSpent(r)

\* Alice has stored the N sats of a receive flow
C2_Witness ==
    \E f \in 1..MaxFlows :
       /\ aFlow[f].amount > 0
       /\ FlowStored(aStore, "bsig", aFlow[f].hash) = aFlow[f].amount

\* C3: the HTLC the gateway mints after a payment totals exactly the amount
\* of the invoice make_invoice created, for every accepted request
C3_HtlcTotalsInvoice ==
    \A t \in gTask :
       t.res.ok => SumSeq(Amounts(t.res.send)) = lnInvoices[t.hash].amount

\* C8: an HTLC the gateway minted and the dealer did not swap is, once its
\* locktime has passed, eventually swapped back by the gateway
C8_GatewayRefunds ==
    (\E r \in swapLog :
        /\ ~HtlcSpent(r)
        /\ now > TagValue(HtlcProofs(r)[1].secret, "locktime")[1])
    ~> (\A r \in swapLog : HtlcSpent(r))

\* C9: an HTLC is minted only for a payment hash whose preimage a
\* payment_received notification has carried, and a step that stores a
\* pending receive request leaves the gateway's proofs alone
C9_MintOnlyAfterPayment ==
    /\ [](\A t \in gTask : /\ t.preimage \in gProcessed
                           /\ Sha256(t.preimage) = t.hash
                           /\ lnInvoices[t.hash].paid)
    /\ [][(DOMAIN gPending' # DOMAIN gPending
           /\ DOMAIN gPending \subseteq DOMAIN gPending')
          => /\ gStore' = gStore
             /\ mintSpent' = mintSpent
             /\ gTask' = gTask
             /\ \E m \in net' \ net :
                   m.type = "resp" /\ m.body.ok
                   /\ m.body.result.data.invoice.paymentHash
                         \in DOMAIN gPending']_vars

\* an HTLC has been minted for a stored pending request
C9_Witness ==
    \E t \in gTask : t.pc = "sending" /\ t.res.ok /\ Has(gPending, t.hash)

\* C10: a blinded_signatures request that reaches Alice finds the pending
\* HTLC request of its preimage hash
C10_PendingBeforeMakeInvoice ==
    \A m \in RequestsTo(Alice, "blinded_signatures") :
        Has(aPending, m.params.preimageHash)


(***************************************************************************)
(* Properties of the send flow.                                            *)
(***************************************************************************)
\* pay commands whose HTLC has been minted and whose change has been saved
Committed(p) == aPay[p].pc \in {"wait_gateway", "done", "rejected", "timeout"}

CommittedAmount(q) == IF Committed(q) THEN aPay[q].amountSat ELSE 0

\* what the pay commands other than p have committed
CommittedByOthers(p) ==
    SumSeq([q \in 1..MaxPays |-> IF q = p THEN 0 ELSE CommittedAmount(q)])

Stored(store, proofs) ==
    {i \in 1..Len(proofs) : Has(store, hashToCurve(proofs[i].secret))}

\* the HTLC of pay command p has been spent at the mint
PayHtlcSpent(p) ==
    \A i \in 1..Len(aPay[p].res.send) :
        hashToCurve(aPay[p].res.send[i].secret) \in mintSpent

\* the hash a token is locked to, as its first secret says
TokenData(token) == token.proofs[1].secret.data

\* C4: once the gateway has answered pay_invoice with success, Alice's
\* store is amountSat lower than before the command (her inputs are gone,
\* the change is in) and the gateway's store holds amountSat from the claim
C4_SendMovesAmount ==
    \A p \in 1..MaxPays :
       aPay[p].pc = "done" =>
          /\ Stored(aStore, aPay[p].inputs) = {}
          /\ SumSeq(Amounts(aPay[p].inputs)) - SumSeq(Amounts(aPay[p].res.keep))
                = aPay[p].amountSat
          /\ (\A q \in 1..MaxPays : aPay[q].pc # "minting")
                => getBalance(aStore) + aPay[p].amountSat + CommittedByOthers(p)
                      = SumSeq(AliceFunds)
          /\ FlowStored(gStore, "claim", aPay[p].invoice.paymentHash)
                = aPay[p].amountSat
          /\ getBalance(gStore) >= SumSeq(GatewayFunds) + aPay[p].amountSat

\* a pay command has ended with the gateway's success
C4_Witness ==
    \E p \in 1..MaxPays : aPay[p].pc = "done" /\ aPay[p].amountSat > 0

\* C5: the gateway pays only for a token whose data is the invoice's
\* payment hash, swaps only once the payment has returned the preimage, and
\* a step that answers a request whose token does not match neither pays
\* nor swaps
C5_VerifyPaySwap ==
    /\ [](/\ \A t \in gPay :
                /\ TokenData(t.req.params.token) = t.req.params.invoice.paymentHash
                /\ t.pc = "claiming"
                      => /\ t.req.params.invoice.paymentHash \in lnPaid
                         /\ Sha256(t.preimage) = t.req.params.invoice.paymentHash
          /\ \A p \in 1..MaxPays :
                (aPay[p].res.ok /\ PayHtlcSpent(p))
                   => aPay[p].invoice.paymentHash \in lnPaid)
    /\ [][\A m \in net \ net' :
             (/\ m.type = "req"
              /\ m.method = "pay_invoice"
              /\ ~Missing(m.params, "token")
              /\ TokenData(m.params.token) # m.params.invoice.paymentHash)
             => /\ lnPaid' = lnPaid
                /\ mintSpent' = mintSpent
                /\ gStore' = gStore
                /\ gPay' = gPay]_vars

\* the gateway has verified a token, paid the invoice and sent the swap
C5_Witness ==
    \E t \in gPay : t.pc = "claiming" /\ t.res.ok

\* C6: a pay_invoice request whose token is locked to another hash than the
\* invoice's payment hash is answered with error code -32602
C6_MismatchIs32602 ==
    \A m \in net :
       (/\ m.type = "resp"
        /\ m.re.method = "pay_invoice"
        /\ ~Missing(m.re.params, "token")
        /\ TokenData(m.re.params.token) # m.re.params.invoice.paymentHash)
       => (~m.body.ok /\ m.body.code = -32602)

\* the gateway has rejected pay command p, or p timed out and the gateway
\* is not working on it; the HTLC is unspent and its locktime has passed
RefundDue(p) ==
    /\ \/ aPay[p].pc = "rejected"
       \/ /\ aPay[p].pc = "timeout"
          /\ aPay[p].req \notin net
          /\ \A t \in gPay : t.req # aPay[p].req
    /\ ~PayHtlcSpent(p)
    /\ now > aPay[p].invoice.expiryUnixSec

\* Alice holds the amount of pay command p again
Reclaimed(p) ==
    getBalance(aStore) + CommittedByOthers(p) >= SumSeq(AliceFunds)

\* C7: when the gateway has rejected pay_invoice or never answers, Alice
\* holds the amount again eventually after the locktime
C7_AliceReclaims ==
    (\E p \in 1..MaxPays : RefundDue(p))
    ~> (\A p \in 1..MaxPays : aPay[p].pc \in {"rejected", "timeout"}
                                 => (Reclaimed(p) \/ PayHtlcSpent(p)))

(***************************************************************************)
(* Properties of the message lists and the dealer's split.                 *)
(***************************************************************************)
\* the make_invoice request of receive command f, once it has been sent
SentMakeInvoice(f) ==
    /\ aFlow[f].req.type = "req"
    /\ aFlow[f].req.method = "make_invoice"

\* C11: the list M_D ++ M_A reaches the mint as Alice sent it (the dealer's
\* messages first, hers after, in her order), the mint signs it in that
\* order, and the dealer keeps the first |M_D| signatures and sends Alice
\* exactly the rest, in order
C11_OrderAndSplit ==
    /\ [](\A r \in swapLog : \A f \in 1..MaxFlows :
             (SentMakeInvoice(f) /\ r.params.requestPreimageHash = aFlow[f].hash)
                => LET M == r.params.blindedMessages
                       k == Len(aFlow[f].od)
                   IN /\ M = aFlow[f].req.params.blindedMessages
                      /\ Len(M) >= k
                      /\ [i \in 1..k |-> M[Len(M) - k + i]]
                            = BlindedMessagesOf(aFlow[f].od))
    /\ [](\A t \in dTask :
             LET M == t.req.params.blindedMessages
                 n == Len(t.pendingFee.outputData)
             IN t.res.success
                => /\ Len(M) >= n
                   /\ [i \in 1..n |-> M[i]]
                         = BlindedMessagesOf(t.pendingFee.outputData)
                   /\ t.res.blindedSignatures
                         = [i \in 1..Len(M) |-> MintSign(M[i])])
    /\ [][\A t \in dTask \ dTask' :
             LET sigs == t.res.blindedSignatures
                 od == t.pendingFee.outputData
                 n == Len(od)
             IN (t.res.success /\ Len(sigs) >= n)
                => /\ dStore' = saveProofs(dStore,
                                   [i \in 1..n |-> toProof(od[i], sigs[i])])
                   /\ \E m \in net' \ net :
                         /\ m.type = "req"
                         /\ m.method = "blinded_signatures"
                         /\ m.to = t.pendingFee.alicePubkey
                         /\ m.params.blindedSignatures
                               = [i \in 1..(Len(sigs) - n) |-> sigs[n + i]]]_vars

\* the dealer has stored its fee and two signatures are on their way to Alice
C11_Witness ==
    \E m \in RequestsTo(Alice, "blinded_signatures") :
       /\ Len(m.params.blindedSignatures) = 2
       /\ FlowStored(dStore, "fee", m.params.preimageHash) = DEALER_FEE

(***************************************************************************)
(* Properties of the request handlers.                                     *)
(***************************************************************************)
\* C12: the dealer calls the mint for a swap_htlc request only when the
\* request's preimage hashes to the payment hash in the HTLC secret
C12_DealerVerifiesPreimage ==
    \A t \in dTask :
       Sha256(t.req.params.preimage) = SecretData(HtlcProofs(t.req)[1])

\* the hashes pending entries are stored under: the request hashes of
\* Alice and of the other client, and the payment hashes of the invoices
PendingHashes ==
    {Sha256(AlicePreimage(f)) : f \in 1..MaxFlows}
    \cup {Sha256(200 + i) : i \in 0..MaxExternal}
    \cup {Sha256(NwcPreimage(k)) : k \in 1..(MaxFlows + MaxExternal)}

\* C13: every entry of pendingHTLCRequests, pendingDealerFees and
\* pendingReceiveRequests is removed again at some time
C13_PendingRemoved ==
    \A h \in PendingHashes :
       /\ Has(aPending, h) ~> ~Has(aPending, h)
       /\ Has(dPending, h) ~> ~Has(dPending, h)
       /\ Has(gPending, h) ~> ~Has(gPending, h)

\* C14: when the gateway's wait for the dealer ends in an error response or
\* in the timeout, the pending receive request stays, and a swap_htlc that
\* fails at the dealer leaves the pending dealer fee in place
C14_PendingRetained ==
    /\ [][\A t \in gTask \ gTask' :
             (/\ t.pc = "wait_dealer"
              /\ \A m \in net \ net' : ~m.body.ok)
                => Has(gPending', t.hash)]_vars
    /\ [][\A t \in dTask \ dTask' :
             ~t.res.success
                => Has(dPending', t.req.params.requestPreimageHash)]_vars

\* the request carries every parameter its handler reads
Complete(m, names) == \A name \in names : ~Missing(m.params, name)

\* a blinded_signatures request at Alice, or a swap_htlc request at the
\* dealer, that names a hash without pending entry
NoPendingEntry(m) ==
    /\ m.type = "req"
    /\ \/ /\ m.to = Alice
          /\ m.method = "blinded_signatures"
          /\ Complete(m, {"preimageHash", "blindedSignatures"})
          /\ ~Has(aPending, m.params.preimageHash)
       \/ /\ m.to = Dealer
          /\ m.method = "swap_htlc"
          /\ Complete(m, {"htlcToken", "blindedMessages", "requestPreimageHash",
                          "preimage", "alicePubkey"})
          /\ ~Has(dPending, m.params.requestPreimageHash)

\* C15: the step that handles a request whose hash has no pending entry
\* answers it with -32603, leaves the pending maps and the proof stores as
\* they are and starts no call of the mint
C15_NoPendingIs32603 ==
    [][\A m \in net \ net' :
          NoPendingEntry(m)
             => /\ \E r \in net' \ net :
                      /\ r.type = "resp" /\ r.re = m /\ r.from = m.to
                      /\ ~r.body.ok /\ r.body.code = -32603
                /\ aPending' = aPending /\ dPending' = dPending
                /\ aStore' = aStore /\ dStore' = dStore
                /\ mintSpent' = mintSpent
                /\ aTask' = aTask /\ dTask' = dTask]_vars

\* both peers have answered such a request
C15_Witness ==
    /\ \E r \in net : /\ r.type = "resp" /\ r.from = Alice
                      /\ r.body = createErrorResponse(-32603,
                                     "No pending HTLC request found")
    /\ \E r \in net : /\ r.type = "resp" /\ r.from = Dealer
                      /\ r.body = createErrorResponse(-32603,
                                     "No pending dealer fee request found")

\* the methods a peer's handler has a branch for
KnownMethods(peer) ==
    CASE peer = Alice -> {"blinded_signatures"}
      [] peer = Dealer -> {"info", "request_dealer_fee", "swap_htlc"}
      [] peer = Gateway -> {"info", "pay_invoice", "make_invoice"}
      [] OTHER -> {}

\* the parameters a method's branch tests before it goes on
Required(method) ==
    CASE method = "blinded_signatures" -> {"preimageHash", "blindedSignatures"}
      [] method = "request_dealer_fee" -> {"preimageHash", "amount"}
      [] method = "swap_htlc" -> {"htlcToken", "blindedMessages",
                                  "requestPreimageHash", "preimage", "alicePubkey"}
      [] method = "pay_invoice" -> {"invoice", "token"}
      [] method = "make_invoice" -> {"amount", "blindedMessages", "preimageHash",
                                     "dealerPubkey"}
      [] OTHER -> {}

LacksParams(q) ==
    \E name \in Required(q.method) :
       IF name = "amount" THEN MissingAmount(q.params) ELSE Missing(q.params, name)

\* the response a step adds to request q carries error code c
AnswersWith(q, c) ==
    \E r \in net' \ net : /\ r.type = "resp" /\ r.re = q
                          /\ ~r.body.ok /\ r.body.code = c

\* C16: a peer answers an unknown method with -32601, a known method that
\* lacks a required parameter with -32602, and a known method whose
\* execution fails (at the mint, at the Lightning backend, in a lookup or
\* while unblinding) with -32603; no other error code is sent
C16_ErrorCodes ==
    /\ [](\A m \in net :
             (m.type = "resp" /\ m.from \in {Alice, Dealer, Gateway})
                => IF m.re.method \notin KnownMethods(m.from)
                   THEN ~m.body.ok /\ m.body.code = -32601
                   ELSE IF LacksParams(m.re)
                   THEN ~m.body.ok /\ m.body.code = -32602
                   ELSE m.body.ok \/ m.body.code = -32603)
    /\ [][/\ \A t \in aTask \ aTask' : ~t.res.ok => AnswersWith(t.req, -32603)
          /\ \A t \in dTask \ dTask' : ~t.res.success => AnswersWith(t.req, -32603)
          /\ \A t \in gPay \ gPay' :
                (t.pc = "claiming" /\ ~t.res.ok) => AnswersWith(t.req, -32603)
          /\ \A t \in gPay \ gPay' :
                (t.pc = "paying" /\ lnPaid' = lnPaid) => AnswersWith(t.req, -32603)]_vars

\* a peer has answered an unknown method and a dealer swap has failed at
\* the mint
C16_Witness ==
    /\ \E m \in net : m.type = "resp" /\ ~m.body.ok /\ m.body.code = -32601
    /\ \E m \in net : /\ m.type = "resp" /\ m.re.method = "blinded_signatures"
                      /\ ~m.body.ok /\ m.body.code = -32603

(***************************************************************************)
(* Properties of requestAndWaitForResponse.                                *)
(***************************************************************************)
Settled(p) == aPay[p].pc \in {"done", "rejected", "timeout"}

\* C17: a waiting call is resolved only by an event that carries the e-tag
\* of its own request and comes from the peer the request went to; the
\* requests outstanding have different ids, and the step that resolves one
\* call leaves every other call as it is
C17_ResolvesWithOwnResponse ==
    /\ [](\A p \in 1..MaxPays : \A q \in 1..MaxPays :
             (p # q /\ aPay[p].req.type = "req" /\ aPay[q].req.type = "req")
                => aPay[p].req # aPay[q].req)
    /\ [][\A p \in 1..MaxPays :
             (aPay[p].pc = "wait_gateway" /\ aPay'[p].pc \in {"done", "rejected"})
                => /\ \E m \in net \ net' :
                         /\ m.type = "resp"
                         /\ m.re = aPay[p].req
                         /\ m.from = aPay[p].req.to
                         /\ aPay'[p].pc = IF m.body.ok THEN "done" ELSE "rejected"
                   /\ \A q \in 1..MaxPays : q # p => aPay'[q] = aPay[q]]_vars

\* one call has resolved while another waits and an event of another client
\* tagged with the waiting call's request id is on the relay
C17_Witness ==
    \E p \in 1..MaxPays : \E q \in 1..MaxPays :
       /\ aPay[p].pc = "done"
       /\ aPay[q].pc = "wait_gateway"
       /\ \E m \in net : m.type = "resp" /\ m.from = Other /\ m.re = aPay[q].req

\* C18: a call that waits is completed at some time, by its response or by
\* the timeout; a completed call keeps its outcome, and a response that
\* reaches a completed call changes nothing at Alice
C18_CompletesOnce ==
    /\ \A p \in 1..MaxPays : (aPay[p].pc = "wait_gateway") ~> Settled(p)
    /\ [][\A p \in 1..MaxPays : Settled(p) => aPay'[p] = aPay[p]]_vars
    /\ [][\A p \in 1..MaxPays :
             (aPay[p].pc = "wait_gateway" /\ aPay'[p].pc = "timeout")
                => net' = net]_vars
    /\ [][\A m \in net \ net' :
             (/\ m.type = "resp"
              /\ m.to = Alice
              /\ \E p \in 1..MaxPays : m.re = aPay[p].req /\ Settled(p))
                => /\ aPay' = aPay
                   /\ aStore' = aStore
                   /\ mintSpent' = mintSpent]_vars

\* a call ended with the timeout, the gateway answered it afterwards and
\* the answer has been taken off the relay
C18_Witness ==
    \E p \in 1..MaxPays :
       /\ aPay[p].pc = "timeout"
       /\ aPay[p].invoice.paymentHash \in lnPaid
       /\ aPay[p].req \notin net
       /\ \A t \in gPay : t.req # aPay[p].req
       /\ \A m \in net : m.type = "resp" => m.re # aPay[p].req

KeyedByY(store) ==
    /\ \A y \in DOMAIN store : y = hashToCurve(store[y].secret)
    /\ \A y1, y2 \in DOMAIN store :
          hashToCurve(store[y1].secret) = hashToCurve(store[y2].secret) => y1 = y2

\* C20: every stored proof is stored under Y = H2C(secret) and no two stored
\* proofs share a Y; a stored row is never replaced, and a save of proofs
\* whose Y are all stored leaves the store and the balance as they were
C20_StoreKeyedByY ==
    /\ [](KeyedByY(aStore) /\ KeyedByY(gStore) /\ KeyedByY(dStore))
    /\ [][\A y \in DOMAIN aStore :
             y \in DOMAIN aStore' => aStore'[y] = aStore[y]]_vars
    /\ [](\A proofs \in DbProofSeqs :
             (\A i \in 1..Len(proofs) : Has(aStore, hashToCurve(proofs[i].secret)))
                => /\ saveProofs(aStore, proofs) = aStore
                   /\ getBalance(saveProofs(aStore, proofs)) = getBalance(aStore))

\* a save has skipped a proof whose Y was stored with another amount, after
\* the CLI received a token and a pay command took proofs out of the store
C20_Witness ==
    /\ \E p \in ignored :
          /\ Has(aStore, hashToCurve(p.secret))
          /\ aStore[hashToCurve(p.secret)].amount # p.amount
    /\ \E y \in DOMAIN aStore : aStore[y].secret.nonce[1][1] = "cli"
    /\ \E p \in 1..MaxPays : aPay[p].pc = "wait_gateway"

(***************************************************************************)
(* Properties of sendHTLC's use of the store.                              *)
(***************************************************************************)
\* C21: a send whose mint call has failed has left its input proofs in
\* the store
C21_FailedSendKeepsInputs ==
    \A p \in 1..MaxPays :
       (/\ aPay[p].pc \in {"minting", "failed"}
        /\ aPay[p].inputs # <<>>
        /\ ~aPay[p].res.ok)
          => \A i \in 1..Len(aPay[p].inputs) :
                Has(aStore, hashToCurve(aPay[p].inputs[i].secret))

(***************************************************************************)
(* Properties of the proof-state tracker.                                  *)
(***************************************************************************)
\* the callbacks invoked so far for the k-th set
CallsFor(k) == SelectSeq(tCalls, LAMBDA call : call.id = TrackId(k))

\* the k-th set is in the map of this.subscription
Tracked(k) ==
    /\ tSub # NoSubscription
    /\ \E i \in 1..Len(tMaps[tSub.map]) : tMaps[tSub.map][i].id = TrackId(k)

AllReported(k, reported) == ProofCs(TrackedProofs(k)) \subseteq reported

C23_OwnPreimage ==
    /\ \A i \in 1..Len(tCalls) : \A k \in 1..MaxSets :
          tCalls[i].id = TrackId(k) => tCalls[i].preimage = TrackPreimage(k)
    /\ \A m \in 1..Len(tMaps) : \A i \in 1..Len(tMaps[m]) : \A k \in 1..MaxSets :
          tMaps[m][i].id = TrackId(k)
             => tMaps[m][i].preimage \in {0, TrackPreimage(k)}

\* the k-th set is in the trackedSets map m
InMap(k, m) == \E i \in 1..Len(tMaps[m]) : tMaps[m][i].id = TrackId(k)

\* an open mint subscription reports the proofs of the k-th set to the map
\* that holds the set
Watched(k) ==
    \E s \in 1..Len(mSubs) :
       /\ mSubs[s].live
       /\ InMap(k, mSubs[s].map)
       /\ ProofCs(TrackedProofs(k)) \subseteq mSubs[s].proofs

\* C24: once the tracker has a subscription again, every set that is still
\* held in a map (no callback yet, not stopped) is watched by an open mint
\* subscription, unless a trackProofSet call for its map is still in progress
C24_ReopenedForAllSets ==
    \A k \in 1..MaxSets : \A m \in 1..Len(tMaps) :
       (/\ tSub # NoSubscription
        /\ InMap(k, m)
        /\ \A t \in tTask : t.map # m)
          => Watched(k)

\* C25: no mint subscription of the tracker is open while the map it
\* reports to holds no set
C25_NoIdleSubscription ==
    \A s \in 1..Len(mSubs) : mSubs[s].live => tMaps[mSubs[s].map] # <<>>

(***************************************************************************)
(* Properties of the SIG_ALL signature.                                    *)
(***************************************************************************)
Secrets(inputProofs) == [i \in 1..Len(inputProofs) |-> inputProofs[i].secret]

Bs(outputBlindedMessages) ==
    [i \in 1..Len(outputBlindedMessages) |-> outputBlindedMessages[i].B_]

\* the signer's key, in either encoding
SignersKey(pubkey, privkey) == pubkey \in {Pub(privkey), <<privkey>>}

\* C26, as stated: under the signer's key the signature verifies for
\* (inputs', outputs') exactly if no input secret and no output B_ differs
\* from the signed pair
C26_VerifiesExactPairOnly ==
    (calc.op = "verified" /\ SignersKey(calc.pubkey, calc.privkey))
       => (calc.result <=>
              /\ Secrets(calc.inputProofs) = Secrets(calc.signed.inputProofs)
              /\ Bs(calc.outputBlindedMessages) = Bs(calc.signed.outputBlindedMessages))

\* secret_0 || ... || secret_n || B_0 || ... || B_m as one string
ByteSequence(inputProofs, outputBlindedMessages) ==
    Concat([i \in 1..Len(inputProofs) |-> inputProofs[i].secret.raw])
    \o Concat([i \in 1..Len(outputBlindedMessages) |-> outputBlindedMessages[i].B_.raw])

\* C26, amended: the signature verifies exactly under the signer's key for
\* the pairs whose byte sequence secret_0 || ... || B_m is the signed one
C26_VerifiesSignedBytesOnly ==
    calc.op = "verified"
       => (calc.result <=>
              /\ SignersKey(calc.pubkey, calc.privkey)
              /\ ByteSequence(calc.inputProofs, calc.outputBlindedMessages)
                 = ByteSequence(calc.signed.inputProofs,
                                calc.signed.outputBlindedMessages))

\* a pair that differs from the signed one in an output B_ only was
\* rejected, and so was one under another peer's key
C26_Witness ==
    /\ calc.op = "verified"
    /\ ~calc.result
    /\ SignersKey(calc.pubkey, calc.privkey)
    /\ Secrets(calc.inputProofs) = Secrets(calc.signed.inputProofs)
    /\ Len(calc.outputBlindedMessages) = Len(calc.signed.outputBlindedMessages)
    /\ Bs(calc.outputBlindedMessages) # Bs(calc.signed.outputBlindedMessages)

(***************************************************************************)
(* Properties of the HTLC token of swap_htlc.                              *)
(***************************************************************************)
\* C27: in every swap_htlc request the gateway has sent, the first proof of
\* the token carries the witness with the aggregate signature and no other
\* proof of the token carries a witness
C27_WitnessOnFirstProofOnly ==
    \A r \in swapLog :
       LET proofs == r.params.htlcToken.proofs IN
       /\ proofs[1].witness.signatures # <<>>
       /\ \A i \in 2..Len(proofs) : proofs[i].witness = NoWitness

\* C28: whenever an operation of the wallet is called while the wallet is
\* not initialized (no initialize() has completed, or close() followed),
\* the operation fails with 'Wallet not initialized' and the proofs table
\* is what it was before the call.
C28_UninitializedFails ==
    (wResult.op # "none" /\ ~wResult.ready)
       => (wResult.error = NotInitializedError /\ wDb = wResult.before)

\* the inputs the pay command is to reject: no BOLT11 invoice, an amount
\* argument that differs from the invoice's amount, no amount at all, no
\* payment hash
RejectedPayInput(i, amount) ==
    \/ i = 3
    \/ ExtInvoice(i).amountSat # 0 /\ amount # 0 /\ amount # ExtInvoice(i).amountSat
    \/ ExtInvoice(i).amountSat = 0 /\ amount = 0
    \/ ExtInvoice(i).paymentHash = NoPaymentHash

\* C29: a pay command whose input payThroughGateway rejects ends as failed
\* in that very step, removes no proof from Alice's store, spends nothing
\* at the mint and sends no pay_invoice request.
C29_RejectedPayLeavesStore ==
    [][\A p \in 1..MaxPays, i \in PayCommandInvoices, a \in PayAmountArgs :
          (AlicePay(p, i, a) /\ RejectedPayInput(i, a))
             => /\ aPay'[p].pc = "failed"
                /\ aStore' = aStore
                /\ mintSpent' = mintSpent
                /\ net' = net
                /\ sent' = sent]_vars

\* each kind of rejected input has been given to a pay command, and
\* Alice's store still holds proofs
C29_Witness ==
    /\ aStore # EmptyMap
    /\ aPay[1].pc = "failed" /\ aPay[1].invoice = ExtInvoice(4)
    /\ aPay[2].pc = "failed" /\ aPay[2].invoice = ExtInvoice(3)

\* the blinded_signatures requests of the dealer that a step adds to the relay
NewBlindedSignatures ==
    {m \in net' \ net : m.type = "req" /\ m.from = Dealer
                        /\ m.method = "blinded_signatures"}

\* C30: every step in which the dealer sends blinded_signatures belongs to
\* a swap_htlc call whose mint swap has succeeded (the token's proofs are
\* spent at the mint) and, once the step is taken, the dealer's store holds
\* a proof for each of the fee outputs the dealer created for that swap.
C30_SignaturesAfterSwapAndSave ==
    [][\A m \in NewBlindedSignatures :
          \E t \in dTask :
             LET P == t.req.params
                 od == t.pendingFee.outputData
             IN /\ P.requestPreimageHash = m.params.preimageHash
                /\ t.res.success
                /\ \A i \in 1..Len(P.htlcToken.proofs) :
                      hashToCurve(P.htlcToken.proofs[i].secret) \in mintSpent
                /\ Len(od) > 0
                /\ \A i \in 1..Len(od) :
                      /\ Has(dStore', hashToCurve(od[i].secret))
                      /\ dStore'[hashToCurve(od[i].secret)].secret = od[i].secret]_vars

\* the dealer has sent blinded_signatures and holds its fee
C30_Witness ==
    /\ \E m \in net : m.type = "req" /\ m.from = Dealer
                      /\ m.method = "blinded_signatures"
    /\ dStore # EmptyMap

\* the answers to blinded_signatures requests that a step of Alice adds
NewAliceAnswers ==
    {r \in net' \ net : r.type = "resp" /\ r.from = Alice
                        /\ r.re.method = "blinded_signatures"}

\* the request found a pending entry
FoundPending(req) ==
    /\ ~Missing(req.params, "preimageHash")
    /\ ~Missing(req.params, "blindedSignatures")
    /\ Has(aPending, req.params.preimageHash)

\* C31: a success answer to blinded_signatures is sent in the step that
\* saves the unlocked proofs the mint returned and deletes the pending
\* entry; an error answer to a request that found its pending entry has
\* code -32603 and its step leaves store and pending entries as they
\* were; no other step removes a pending entry.
C31_SuccessAfterSaveElseUnchanged ==
    [][/\ \A r \in NewAliceAnswers :
             IF r.body.ok
             THEN \E t \in aTask :
                     /\ t.req = r.re /\ t.res.ok
                     /\ Len(t.res.proofs) > 0
                     /\ \A i \in 1..Len(t.res.proofs) :
                           LET pr == t.res.proofs[i] IN
                           /\ pr.secret.kind = "plain"
                           /\ Has(aStore', hashToCurve(pr.secret))
                           /\ aStore'[hashToCurve(pr.secret)].secret = pr.secret
                     /\ ~Has(aPending', t.hash)
             ELSE /\ aStore' = aStore
                  /\ aPending' = aPending
                  /\ (FoundPending(r.re) \/ \E t \in aTask : t.req = r.re)
                        => r.body.code = -32603
       /\ (\E h \in DOMAIN aPending : ~Has(aPending', h))
             => \E r \in NewAliceAnswers : r.body.ok]_vars

\* Alice has answered one blinded_signatures request with -32603 after a
\* failed mint receive and another with success
C31_Witness ==
    /\ \E r \in net : /\ r.type = "resp" /\ r.from = Alice
                      /\ r.re.method = "blinded_signatures"
                      /\ ~r.body.ok /\ r.body.code = -32603
                      /\ r.body.message = "Failed to process blinded signatures"
    /\ \E r \in net : /\ r.type = "resp" /\ r.from = Alice
                      /\ r.re.method = "blinded_signatures" /\ r.body.ok

\* C32: the gateway pays an invoice only for a token whose proofs are all
\* locked to the invoice's payment hash and total at least the invoice's
\* amount, and a pay_invoice request for which it has paid ends with at
\* least that amount claimed from the token.
C32_PaysOnlyWhatItClaims ==
    [][\A t \in gPay :
          LET P == t.req.params
              X == P.invoice.amountSat
          IN /\ (t.pc = "paying" /\ P.invoice.paymentHash \in lnPaid' \ lnPaid)
                   => /\ \A i \in 1..Len(P.token.proofs) :
                            SecretData(P.token.proofs[i]) = P.invoice.paymentHash
                      /\ SumSeq(Amounts(P.token.proofs)) >= X
             /\ (t.pc = "claiming" /\ t \notin gPay')
                   => /\ t.res.ok
                      /\ SumSeq(Amounts(t.res.send)) >= X]_vars

\* the store keys of the proofs a sendHTLC call took as inputs
InputKeys(proofs) == {hashToCurve(proofs[i].secret) : i \in 1..Len(proofs)}

\* C33: no stored proof is the input of two sendHTLC calls on the same
\* wallet, and while a call awaits the mint its inputs are not in the
\* store for another call to select.
C33_DisjointInputs ==
    /\ \A p, q \in 1..MaxPays :
          p # q => InputKeys(aPay[p].inputs) \cap InputKeys(aPay[q].inputs) = {}
    /\ \A p \in 1..MaxPays :
          aPay[p].pc = "minting"
             => \A y \in InputKeys(aPay[p].inputs) : ~Has(aStore, y)

\* two sendHTLC calls on Alice's wallet await the mint at the same time
C33_Witness ==
    /\ aPay[1].pc = "minting" /\ aPay[1].inputs # <<>>
    /\ aPay[2].pc = "minting" /\ aPay[2].inputs # <<>>

\* the preimage the set with this id has in a trackedSets map (0: none, or
\* the set is not in the map)
PreimageIn(map, id) ==
    IF \E i \in 1..Len(map) : map[i].id = id
    THEN (CHOOSE e \in Range(map) : e.id = id).preimage
    ELSE 0

\* C34: a state update for proof c changes the preimage of a tracked set
\* only if c is one of that set's proofs.
C34_PreimageFromOwnProof ==
    [][\A s \in 1..Len(mSubs) : \A c \in mSubs[s].proofs :
          ProofStateUpdate(s, c)
             => \A k \in 1..MaxSets :
                   LET m == mSubs[s].map IN
                   (/\ InMap(k, m)
                    /\ PreimageIn(tMaps'[m], TrackId(k)) # 0
                    /\ PreimageIn(tMaps'[m], TrackId(k))
                          # PreimageIn(tMaps[m], TrackId(k)))
                      => c \in ProofCs(TrackedProofs(k))]_vars

\* C35: a PendingDealerFee stored under a preimage hash is never replaced:
\* as long as the hash has an entry, it is the entry first registered.
C35_PendingFeeNotReplaced ==
    [][\A h \in DOMAIN dPending :
          Has(dPending', h) => dPending'[h] = dPending[h]]_vars

\* the receive flows Alice has started, and what they are to bring her
FlowsStarted == {f \in 1..MaxFlows : aFlow[f].pc # "new"}

RECURSIVE SumAmounts(_)
SumAmounts(F) ==
    IF F = {} THEN 0
    ELSE LET f == CHOOSE x \in F : TRUE
         IN aFlow[f].amount + SumAmounts(F \ {f})

PaymentProcessed(tasks, h) == \E t \in tasks : t.hash = h

\* C37: a step that delivers a payment_received notification delivers it
\* for a paid invoice whose payment, if its PendingReceiveRequest is stored,
\* is being processed once the step is taken (or was processed before: its
\* HTLC proofs are tracked).
C37_StoredEntryIsProcessed ==
    [][lnNotified' # lnNotified
          => \E h \in DOMAIN lnInvoices :
                /\ lnInvoices[h].paid
                /\ Has(gPending, h) => \/ PaymentProcessed(gTask', h)
                                       \/ Has(gTracked, h)]_vars

\* the peers that run a listen loop
ListeningPeers == {Alice, Gateway, Dealer}

\* the responses a step puts on the relay in the name of a listening peer
NewResponses == {r \in net' \ net : r.type = "resp" /\ r.from \in ListeningPeers}

\* C38: every response a peer sends answers a message with a method field
\* that was addressed to it and goes to that message's sender; the step that
\* sends it sends one response, takes no response from the relay and leaves
\* the request handled; no other response of the peer to that request is on
\* the relay.
C38_OneResponsePerRequest ==
    [][\A r \in NewResponses :
          /\ r.re.type = "req"
          /\ r.re.to = r.from
          /\ r.to = r.re.from
          /\ r.re \notin net'
          /\ Cardinality(NewResponses) = 1
          /\ \A x \in net \ net' : x.type = "req"
          /\ \A x \in net : (x.type = "resp" /\ x.from = r.from) => x.re # r.re]_vars

\* the dealer has answered swap_htlc, Alice has answered the dealer's
\* blinded_signatures, and her response lies unanswered with the dealer
C38_Witness ==
    /\ \E r \in net : /\ r.type = "resp" /\ r.from = Dealer
                      /\ r.re.method = "swap_htlc"
    /\ \E r \in net : /\ r.type = "resp" /\ r.from = Alice /\ r.to = Dealer
                      /\ r.re.method = "blinded_signatures"

\* the error responses to swap_htlc the dealer sends in a step
NewSwapErrors ==
    {r \in net' \ net : /\ r.type = "resp" /\ r.from = Dealer
                        /\ r.re.method = "swap_htlc"
                        /\ ~r.body.ok}

\* the mint has none of these proofs as spent
Unspent(spent, proofs) ==
    \A i \in 1..Len(proofs) : hashToCurve(proofs[i].secret) \notin spent

\* C39: when the dealer answers swap_htlc with an error, the proofs of the
\* request's HTLC token are unspent at the mint.
C39_ErrorLeavesHtlcUnspent ==
    [][\A r \in NewSwapErrors :
          ~Missing(r.re.params, "htlcToken")
             => Unspent(mintSpent', r.re.params.htlcToken.proofs)]_vars

====
